---- MODULE Spec2Model ----
(***************************************************************************)
(* A model of the temail IMAP4 client: the response accumulator            *)
(* (IMAPResponse), the command handlers and the client engine (IMAP).      *)
(*                                                                         *)
(* Bytes are one-character strings and a byte string (QByteArray, QString) *)
(* is a sequence of them, so that line reading, trimming, prefix tests and *)
(* the regular expressions are computed on the characters themselves.      *)
(***************************************************************************)
EXTENDS Integers, Sequences, FiniteSets, TLC

(***************************************************************************)
(* Characters and byte strings                                             *)
(***************************************************************************)
CR == "\r"
LF == "\n"
CRLF == <<CR, LF>>
SP == <<" ">>
Star == <<"*">>

Upper == {"A", "B", "C", "D", "E", "F", "G", "H", "I", "J", "K", "L", "M",
          "N", "O", "P", "Q", "R", "S", "T", "U", "V", "W", "X", "Y", "Z"}
Lower == {"a", "b", "c", "d", "e", "f", "g", "h", "i", "j", "k", "l", "m",
          "n", "o", "p", "q", "r", "s", "t", "u", "v", "w", "x", "y", "z"}
Digit == {"0", "1", "2", "3", "4", "5", "6", "7", "8", "9"}
\* what QByteArray::trimmed, QString::trimmed and the regex class \s take as space
WhiteSpace == {" ", "\t", LF, CR, "\f"}

Min(a, b) == IF a < b THEN a ELSE b
Max(a, b) == IF a > b THEN a ELSE b

\* the bytes of s from index i to the end
From(s, i) == SubSeq(s, i, Len(s))

\* QByteArray::startsWith
startsWith(s, p) == Len(p) <= Len(s) /\ SubSeq(s, 1, Len(p)) = p

\* QByteArray::endsWith
endsWith(s, p) == Len(p) <= Len(s) /\ SubSeq(s, Len(s) - Len(p) + 1, Len(s)) = p

\* QString::trimmed: leading and trailing white space removed
trimmed(s) ==
  LET keep == {i \in 1..Len(s) : s[i] \notin WhiteSpace}
  IN IF keep = {} THEN <<>>
     ELSE SubSeq(s, CHOOSE i \in keep : \A j \in keep : i <= j,
                    CHOOSE i \in keep : \A j \in keep : i >= j)

\* the length of the longest run of characters of class C that starts at s[i]
RunLen(s, i, C) ==
  CHOOSE n \in 0..Max(0, Len(s) - i + 1) :
    /\ \A k \in 0..(n - 1) : s[i + k] \in C
    /\ (i + n > Len(s) \/ s[i + n] \notin C)

DigitValue(c) ==
  CASE c = "0" -> 0 [] c = "1" -> 1 [] c = "2" -> 2 [] c = "3" -> 3
    [] c = "4" -> 4 [] c = "5" -> 5 [] c = "6" -> 6 [] c = "7" -> 7
    [] c = "8" -> 8 [] c = "9" -> 9 [] OTHER -> 0

DigitChar(n) ==
  CASE n = 0 -> "0" [] n = 1 -> "1" [] n = 2 -> "2" [] n = 3 -> "3"
    [] n = 4 -> "4" [] n = 5 -> "5" [] n = 6 -> "6" [] n = 7 -> "7"
    [] n = 8 -> "8" [] OTHER -> "9"

RECURSIVE DigitsToNat(_)
DigitsToNat(s) ==
  IF s = <<>> THEN 0
  ELSE 10 * DigitsToNat(SubSeq(s, 1, Len(s) - 1)) + DigitValue(s[Len(s)])

\* QString::toULongLong / toLongLong of a decimal string: white space around
\* the number is skipped, ok is false for anything else that is not a
\* non-empty run of digits, and the value is then 0
toULongLong(s) ==
  LET n == trimmed(s)
      ok == n # <<>> /\ \A i \in 1..Len(n) : n[i] \in Digit
  IN [ok |-> ok, val |-> IF ok THEN DigitsToNat(n) ELSE 0]

RECURSIVE NatToDigits(_)
NatToDigits(n) ==
  IF n < 10 THEN <<DigitChar(n)>>
  ELSE NatToDigits(n \div 10) \o <<DigitChar(n % 10)>>

(***************************************************************************)
(* QIODevice: the unread bytes of a device are a byte string               *)
(***************************************************************************)
\* QIODevice::readLine(): the bytes up to and including the first LF, or all
\* that is there when it holds no LF
readLine(dev) ==
  LET nl == {i \in 1..Len(dev) : dev[i] = LF}
      n == IF nl = {} THEN Len(dev) ELSE CHOOSE i \in nl : \A j \in nl : i <= j
  IN [data |-> SubSeq(dev, 1, n), dev |-> From(dev, n + 1)]

\* the lines of bytes in order, the last one maybe without its end
RECURSIVE LinesOf(_)
LinesOf(bytes) ==
  IF bytes = <<>> THEN <<>>
  ELSE <<readLine(bytes).data>> \o LinesOf(readLine(bytes).dev)

\* QIODevice::read(maxSize): at most maxSize bytes
deviceRead(dev, maxSize) ==
  LET n == Max(0, Min(maxSize, Len(dev)))
  IN [data |-> SubSeq(dev, 1, n), dev |-> From(dev, n + 1)]

(***************************************************************************)
(* Regular expressions (QRegularExpression::match finds the leftmost match *)
(* anywhere in the subject; "." takes every character but LF)              *)
(***************************************************************************)
\* the least element of a set of indices, 0 for the empty set
FirstIn(S) == IF S = {} THEN 0 ELSE CHOOSE i \in S : \A j \in S : i <= j
LastIn(S) == IF S = {} THEN 0 ELSE CHOOSE i \in S : \A j \in S : i >= j

\* the index of the last character a greedy ".*" starting at s[i] takes
DotStarEnd(s, i) ==
  LET nl == {n \in i..Len(s) : s[n] = LF}
  IN IF nl = {} THEN Max(Len(s), i - 1) ELSE FirstIn(nl) - 1
DotStar(s, i) == SubSeq(s, i, DotStarEnd(s, i))

NoMatch == [ok |-> FALSE]
UpperHyphen == Upper \cup {"-"}

\* (?P<tag>[A-Z]\d+) (?P<type>[A-Z]+) (?P<data>.*) tried at s[i]
TAGGED_REG_at(s, i) ==
  LET d == RunLen(s, i + 1, Digit)
      j == i + 1 + d
      u == RunLen(s, j + 1, Upper)
      k == j + 1 + u
  IN IF /\ s[i] \in Upper /\ d >= 1
        /\ j <= Len(s) /\ s[j] = " " /\ u >= 1
        /\ k <= Len(s) /\ s[k] = " "
     THEN [ok |-> TRUE, type |-> SubSeq(s, j + 1, k - 1), data |-> DotStar(s, k + 1)]
     ELSE NoMatch

TAGGED_REG(s) ==
  LET i == FirstIn({n \in 1..Len(s) : TAGGED_REG_at(s, n).ok})
  IN IF i = 0 THEN NoMatch ELSE TAGGED_REG_at(s, i)

\* \* (?P<type>[A-Z-]+)( (?P<data>.*))? tried at s[i]
UNTAGGED_REG_at(s, i) ==
  LET t == RunLen(s, i + 2, UpperHyphen)
      e == i + 2 + t
  IN IF s[i] = "*" /\ i + 1 <= Len(s) /\ s[i + 1] = " " /\ t >= 1
     THEN [ok |-> TRUE, type |-> SubSeq(s, i + 2, e - 1),
           data |-> IF e <= Len(s) /\ s[e] = " " THEN DotStar(s, e + 1) ELSE <<>>]
     ELSE NoMatch

UNTAGGED_REG(s) ==
  LET i == FirstIn({n \in 1..Len(s) : UNTAGGED_REG_at(s, n).ok})
  IN IF i = 0 THEN NoMatch ELSE UNTAGGED_REG_at(s, i)

\* \* (?P<data>.*) (?P<type>[A-Z-]+) tried at s[i]: the greedy data gives back
\* characters until a space followed by a type character is found
UNTAGGED_TRAILING_REG_at(s, i) ==
  LET k == LastIn({n \in (i + 2)..DotStarEnd(s, i + 2) :
                     s[n] = " " /\ n + 1 <= Len(s) /\ s[n + 1] \in UpperHyphen})
  IN IF s[i] = "*" /\ i + 1 <= Len(s) /\ s[i + 1] = " " /\ k # 0
     THEN [ok |-> TRUE, data |-> SubSeq(s, i + 2, k - 1),
           type |-> SubSeq(s, k + 1, k + RunLen(s, k + 1, UpperHyphen))]
     ELSE NoMatch

UNTAGGED_TRAILING_REG(s) ==
  LET i == FirstIn({n \in 1..Len(s) : UNTAGGED_TRAILING_REG_at(s, n).ok})
  IN IF i = 0 THEN NoMatch ELSE UNTAGGED_TRAILING_REG_at(s, i)

TagA004 == <<"A", "0", "0", "4">>
BODY1 == <<"B", "O", "D", "Y", "[", "1", "]">>
BODY2 == <<"B", "O", "D", "Y", "[", "2", "]">>
HelloWorld == <<"H", "e", "l", "l", "o", " ", "W", "o", "r", "l", "d">>
FetchWord == <<" ", "F", "E", "T", "C", "H", " ", "(">>

\* \* (?P<id>[0-9]+) FETCH \((?P<data>.*)(\))? tried at s[i]
UNTAGGED_FETCH_REG_at(s, i) ==
  LET d == RunLen(s, i + 2, Digit)
      j == i + 2 + d
  IN IF /\ s[i] = "*" /\ i + 1 <= Len(s) /\ s[i + 1] = " " /\ d >= 1
        /\ startsWith(From(s, j), FetchWord)
     THEN [ok |-> TRUE, id |-> SubSeq(s, i + 2, j - 1),
           data |-> DotStar(s, j + Len(FetchWord))]
     ELSE NoMatch

UNTAGGED_FETCH_REG(s) ==
  LET i == FirstIn({n \in 1..Len(s) : UNTAGGED_FETCH_REG_at(s, n).ok})
  IN IF i = 0 THEN NoMatch ELSE UNTAGGED_FETCH_REG_at(s, i)

\* the class [A-Za-z0-9-\[\]\(\)\.\s] of a FETCH field name
FieldClass == Upper \cup Lower \cup Digit \cup {"-", "[", "]", "(", ")", "."}
              \cup WhiteSpace

\* (NIL|{(?P<size>[0-9]+)}(\s(?P<data>[\s\S]*))?)\s? tried at s[p]; end is the
\* index after the match
PAIRED_FETCH_tail(s, p) ==
  LET d == RunLen(s, p + 1, Digit)
      q == p + 1 + d
  IN IF startsWith(From(s, p), <<"N", "I", "L">>)
     THEN [ok |-> TRUE, hasSize |-> FALSE, size |-> <<>>, hasData |-> FALSE,
           data |-> <<>>,
           end |-> IF p + 3 <= Len(s) /\ s[p + 3] \in WhiteSpace THEN p + 4 ELSE p + 3]
     ELSE IF p <= Len(s) /\ s[p] = "{" /\ d >= 1 /\ q <= Len(s) /\ s[q] = "}"
     THEN IF q + 1 <= Len(s) /\ s[q + 1] \in WhiteSpace
          THEN [ok |-> TRUE, hasSize |-> TRUE, size |-> SubSeq(s, p + 1, q - 1),
                hasData |-> TRUE, data |-> From(s, q + 2), end |-> Len(s) + 1]
          ELSE [ok |-> TRUE, hasSize |-> TRUE, size |-> SubSeq(s, p + 1, q - 1),
                hasData |-> FALSE, data |-> <<>>, end |-> q + 1]
     ELSE NoMatch

\* (?P<field>[A-Za-z0-9-\[\]\(\)\.\s]+?) <tail> with the field starting at s[f]:
\* the lazy field takes the fewest characters that let the rest match
PAIRED_FETCH_field(s, f) ==
  LET n == FirstIn({m \in 1..(Len(s) - f) :
                      /\ \A k \in 0..(m - 1) : s[f + k] \in FieldClass
                      /\ s[f + m] = " "
                      /\ PAIRED_FETCH_tail(s, f + m + 1).ok})
  IN IF n = 0 THEN NoMatch
     ELSE [field |-> SubSeq(s, f, f + n - 1)] @@ PAIRED_FETCH_tail(s, f + n + 1)

\* \s?<field> <tail> tried at s[i]: the optional space is taken first
PAIRED_FETCH_REG_at(s, i) ==
  IF s[i] \in WhiteSpace /\ PAIRED_FETCH_field(s, i + 1).ok
  THEN PAIRED_FETCH_field(s, i + 1)
  ELSE PAIRED_FETCH_field(s, i)

\* QRegularExpression::globalMatch: the matches from left to right, each
\* search starting where the previous match ended
RECURSIVE PAIRED_FETCH_globalMatch(_, _)
PAIRED_FETCH_globalMatch(s, from) ==
  LET i == FirstIn({n \in from..Len(s) : PAIRED_FETCH_REG_at(s, n).ok})
  IN IF i = 0 THEN <<>>
     ELSE LET m == PAIRED_FETCH_REG_at(s, i)
          IN <<m>> \o PAIRED_FETCH_globalMatch(s, m.end)

(***************************************************************************)
(* IMAP::Response and common::enum_value                                   *)
(***************************************************************************)
\* a response code is written as the spelling of its enumerator
R_OK == <<"O", "K">>
R_NO == <<"N", "O">>
R_BAD == <<"B", "A", "D">>
R_PREAUTH == <<"P", "R", "E", "A", "U", "T", "H">>
R_BYE == <<"B", "Y", "E">>
R_CAPABILITY == <<"C", "A", "P", "A", "B", "I", "L", "I", "T", "Y">>
R_LIST == <<"L", "I", "S", "T">>
R_LSUB == <<"L", "S", "U", "B">>
R_SEARCH == <<"S", "E", "A", "R", "C", "H">>
R_FLAGS == <<"F", "L", "A", "G", "S">>
R_EXISTS == <<"E", "X", "I", "S", "T", "S">>
R_RECENT == <<"R", "E", "C", "E", "N", "T">>
R_EXPUNGE == <<"E", "X", "P", "U", "N", "G", "E">>
R_FETCH == <<"F", "E", "T", "C", "H">>
R_MAILBOX == <<"M", "A", "I", "L", "B", "O", "X">>
R_COPY == <<"C", "O", "P", "Y">>
R_STORE == <<"S", "T", "O", "R", "E">>

\* the enumerators of IMAP::Response, the first being the one of value 0
Response == <<R_OK, R_NO, R_BAD, R_PREAUTH, R_BYE, R_CAPABILITY, R_LIST, R_LSUB,
              R_SEARCH, R_FLAGS, R_EXISTS, R_RECENT, R_EXPUNGE, R_FETCH,
              R_MAILBOX, R_COPY, R_STORE>>

\* common::enum_value<IMAP::Response>: a name that is no enumerator is
\* converted to static_cast<Et>(0)
enum_value(name) ==
  IF \E i \in 1..Len(Response) : Response[i] = name THEN name ELSE Response[1]

(***************************************************************************)
(* IMAPResponse, the accumulator that digests the bytes it is handed       *)
(* (src/client/imap/response.cpp)                                          *)
(***************************************************************************)
CONNECT_TAG == <<"C", "O", "N", "N", "E", "C", "T">>

\* IMAPResponse::IMAPResponse(tag) with the members' initial values
IMAPResponse(tag) ==
  [tag |-> tag, raw_mode |-> FALSE, buffer |-> CRLF, id |-> 0,
   bytes_to_read |-> 0, field |-> <<>>, error |-> FALSE,
   tagged |-> <<>>, untagged |-> <<>>, untagged_trailing |-> <<>>,
   raw |-> <<>>]

\* _raw[id][field] = data
rawAssign(raw, id, field, data) ==
  IF <<id, field>> \in DOMAIN raw THEN [raw EXCEPT ![<<id, field>>] = data]
  ELSE raw @@ (<<id, field>> :> data)

\* a read that replaces what the literal held so far
rawReplace(raw, id, field, nbuf) == rawAssign(raw, id, field, nbuf)

\* _raw[id][field].append(nbuf): operator[] makes the entry when it is missing
rawAppend(raw, id, field, nbuf) ==
  IF <<id, field>> \in DOMAIN raw THEN [raw EXCEPT ![<<id, field>>] = @ \o nbuf]
  ELSE raw @@ (<<id, field>> :> nbuf)

\* the result of a member function: the accumulator, the device, the value
Ret(acc, dev, ret) == [acc |-> acc, dev |-> dev, ret |-> ret]

\* the _emit_error() macro
emit_error(acc, dev) == Ret([acc EXCEPT !.error = TRUE], dev, FALSE)

\* the buffer after the read of _read_line_to_buffer: a line still open is
\* extended, a line that was complete is replaced
read_line_buffer(buffer, line) ==
  IF ~endsWith(buffer, CRLF) THEN buffer \o line ELSE line

_read_line_to_buffer(acc, dev) ==
  LET r == readLine(dev)
      a == [acc EXCEPT !.buffer = read_line_buffer(acc.buffer, r.data)]
  IN IF a.buffer = <<>> THEN emit_error(a, r.dev)
     ELSE Ret(a, r.dev, endsWith(a.buffer, CRLF))

_handle_tagged(acc, dev, data) ==
  LET parsed == TAGGED_REG(data)
  IN IF parsed.ok
     THEN Ret([acc EXCEPT !.tagged =
                 Append(@, <<enum_value(parsed.type), parsed.data>>)], dev, TRUE)
     ELSE emit_error(acc, dev)

\* the loop of _handle_raw_meta over the matches ms
RECURSIVE raw_meta_loop(_, _)
raw_meta_loop(acc, ms) ==
  IF ms = <<>> THEN [acc |-> acc, ret |-> TRUE]
  ELSE LET parsed == Head(ms)
           bsize == toULongLong(parsed.size)
       IN IF ~parsed.hasSize THEN raw_meta_loop(acc, Tail(ms))
          ELSE IF ~bsize.ok THEN [acc |-> [acc EXCEPT !.error = TRUE], ret |-> FALSE]
          ELSE IF ~parsed.hasData
          THEN [acc |-> [acc EXCEPT !.bytes_to_read = bsize.val,
                                    !.field = parsed.field], ret |-> TRUE]
          ELSE raw_meta_loop(
                 [acc EXCEPT !.raw = rawAssign(@, acc.id, parsed.field, parsed.data)],
                 Tail(ms))

_handle_raw_meta(acc, data) == raw_meta_loop(acc, PAIRED_FETCH_globalMatch(data, 1))

RECURSIVE _handle_raw(_, _)

\* the second half of the loop body of _handle_raw: the literal's bytes are
\* read and appended, and the loop goes on when all of them are there
handle_raw_read(acc, dev) ==
  LET nbuf == deviceRead(dev, acc.bytes_to_read)
      a == [acc EXCEPT !.bytes_to_read = @ - Len(nbuf.data),
                       !.raw = rawAppend(@, acc.id, acc.field, nbuf.data)]
  IN IF a.bytes_to_read > 0 THEN Ret(a, nbuf.dev, FALSE)
     ELSE _handle_raw(a, nbuf.dev)

\* the first half of the loop body after its _handle_raw_meta call returned m
handle_raw_meta_ret(m, dev) ==
  IF ~m.ret THEN Ret(m.acc, dev, FALSE) ELSE handle_raw_read(m.acc, dev)

\* the first half of the loop body of _handle_raw, for _bytes_to_read <= 0
handle_raw_line(acc, dev) ==
  LET r == _read_line_to_buffer(acc, dev)
  IN IF ~r.ret THEN r
     ELSE IF startsWith(r.acc.buffer, <<")">>) THEN Ret(r.acc, r.dev, TRUE)
     ELSE handle_raw_meta_ret(_handle_raw_meta(r.acc, trimmed(r.acc.buffer)), r.dev)

_handle_raw(acc, dev) ==
  IF acc.bytes_to_read <= 0 THEN handle_raw_line(acc, dev)
  ELSE handle_raw_read(acc, dev)

\* _handle_untagged after its _handle_raw call returned r
untagged_raw_ret(r) ==
  IF ~r.ret THEN r ELSE Ret([r.acc EXCEPT !.raw_mode = FALSE], r.dev, TRUE)

\* _handle_untagged after its _handle_raw_meta call returned m
untagged_meta_ret(m, dev) ==
  IF ~m.ret THEN Ret(m.acc, dev, FALSE)
  ELSE IF m.acc.bytes_to_read # 0
  THEN untagged_raw_ret(_handle_raw([m.acc EXCEPT !.raw_mode = TRUE], dev))
  ELSE Ret(m.acc, dev, TRUE)

\* _handle_untagged for a line UNTAGGED_FETCH_REG matches
untagged_fetch(acc, dev, parsed) ==
  LET id == toULongLong(parsed.id)
  IN IF ~id.ok THEN emit_error([acc EXCEPT !.id = id.val], dev)
     ELSE untagged_meta_ret(
            _handle_raw_meta([acc EXCEPT !.id = id.val], parsed.data), dev)

_handle_untagged(acc, dev, data) ==
  LET fetch == UNTAGGED_FETCH_REG(data)
      lead == UNTAGGED_REG(data)
      trail == UNTAGGED_TRAILING_REG(data)
  IN IF fetch.ok THEN untagged_fetch(acc, dev, fetch)
     ELSE IF lead.ok
     THEN Ret([acc EXCEPT !.untagged =
                 Append(@, <<enum_value(lead.type), lead.data>>)], dev, TRUE)
     ELSE IF trail.ok
     THEN Ret([acc EXCEPT !.untagged_trailing =
                 Append(@, <<enum_value(trail.type), trail.data>>)], dev, TRUE)
     ELSE emit_error(acc, dev)

RECURSIVE _handle_command(_, _)

\* the loop of _handle_command after its _handle_untagged call returned u
command_untagged_ret(u) ==
  IF ~u.ret THEN u
  ELSE IF u.acc.tag = CONNECT_TAG THEN Ret(u.acc, u.dev, TRUE)
  ELSE _handle_command(u.acc, u.dev)

_handle_command(acc, dev) ==
  LET r == _read_line_to_buffer(acc, dev)
  IN IF ~r.ret THEN r
     ELSE IF startsWith(r.acc.buffer, <<"*">>)
     THEN command_untagged_ret(
            _handle_untagged(r.acc, r.dev, trimmed(r.acc.buffer)))
     ELSE IF startsWith(r.acc.buffer, r.acc.tag)
     THEN _handle_tagged(r.acc, r.dev, trimmed(r.acc.buffer))
     ELSE emit_error(r.acc, r.dev)

\* digest after its _handle_raw call, if any, returned r
digest_raw_ret(r) ==
  IF ~r.ret THEN r
  ELSE _handle_command([r.acc EXCEPT !.raw_mode = FALSE], r.dev)

\* IMAPResponse::digest(data): the device is a stream over data alone
digest(acc, data) ==
  digest_raw_ret(IF acc.raw_mode THEN _handle_raw(acc, data)
                 ELSE Ret(acc, data, TRUE))

\* what the caller of digest makes of its result
Outcome(r) ==
  IF r.ret THEN "Complete" ELSE IF r.acc.error THEN "Error" ELSE "NeedMore"

(***************************************************************************)
(* IMAPResponse as the client engine uses it: digest() reads the socket    *)
(* itself (unnamed/part_002), and the expressions are matched against the  *)
(* line as read, its CRLF included                                         *)
(***************************************************************************)
\* the index after the digits of {digits} at s[p], 0 when it is not there
BraceSizeEnd(s, p) ==
  LET d == RunLen(s, p + 1, Digit)
  IN IF p <= Len(s) /\ s[p] = "{" /\ d >= 1 /\ p + 1 + d <= Len(s)
        /\ s[p + 1 + d] = "}"
     THEN p + 1 + d ELSE 0

\* (?P<field>[A-Za-z0-9-\[\]\(\)\.\s]+) {(?P<size>[0-9]+)} with the field
\* starting at s[f]: the greedy field gives back characters until a space
\* followed by {digits} is found
FETCH_field_size(s, f) ==
  LET n == LastIn({m \in 1..RunLen(s, f, FieldClass) :
                     /\ f + m <= Len(s) /\ s[f + m] = " "
                     /\ BraceSizeEnd(s, f + m + 1) # 0})
  IN IF n = 0 THEN NoMatch
     ELSE [ok |-> TRUE, field |-> SubSeq(s, f, f + n - 1),
           size |-> SubSeq(s, f + n + 2, BraceSizeEnd(s, f + n + 1) - 1)]

\* \* (?P<id>[0-9]+) FETCH \(<field> {<size>} tried at s[i]
UNTAGGED_FETCH_REG_sock_at(s, i) ==
  LET d == RunLen(s, i + 2, Digit)
      j == i + 2 + d
  IN IF /\ s[i] = "*" /\ i + 1 <= Len(s) /\ s[i + 1] = " " /\ d >= 1
        /\ startsWith(From(s, j), FetchWord)
        /\ FETCH_field_size(s, j + Len(FetchWord)).ok
     THEN [id |-> SubSeq(s, i + 2, j - 1)] @@ FETCH_field_size(s, j + Len(FetchWord))
     ELSE NoMatch

UNTAGGED_FETCH_REG_sock(s) ==
  LET i == FirstIn({n \in 1..Len(s) : UNTAGGED_FETCH_REG_sock_at(s, n).ok})
  IN IF i = 0 THEN NoMatch ELSE UNTAGGED_FETCH_REG_sock_at(s, i)

\* the expression " <field> {<size>}" searched in s
MULTI_FETCH_REG(s) ==
  LET i == FirstIn({n \in 1..Len(s) : s[n] = " " /\ FETCH_field_size(s, n + 1).ok})
  IN IF i = 0 THEN NoMatch ELSE FETCH_field_size(s, i + 1)

\* _buffer after the read of a line at the head of both loops
sock_read_line(acc, sock) ==
  LET r == readLine(sock)
  IN [acc |-> [acc EXCEPT !.buffer = read_line_buffer(acc.buffer, r.data)],
      dev |-> r.dev]

_handle_tagged_sock(acc, sock) ==
  LET parsed == TAGGED_REG(acc.buffer)
  IN IF parsed.ok
     THEN Ret([acc EXCEPT !.tagged =
                 Append(@, <<enum_value(parsed.type), parsed.data>>)], sock, TRUE)
     ELSE emit_error(acc, sock)

RECURSIVE _handle_raw_sock(_, _)

\* the second half of the loop body of _handle_raw: read next data
handle_raw_sock_read(acc, sock) ==
  LET nbuf == deviceRead(sock, acc.bytes_to_read)
      a == [acc EXCEPT !.bytes_to_read = @ - Len(nbuf.data),
                       !.raw = rawAppend(@, acc.id, acc.field, nbuf.data)]
  IN IF a.bytes_to_read > 0 THEN Ret(a, nbuf.dev, FALSE)
     ELSE _handle_raw_sock(a, nbuf.dev)

\* the first half of the loop body after the line was read into acc.buffer
handle_raw_sock_header(acc, sock) ==
  LET parsed == MULTI_FETCH_REG(acc.buffer)
      size == toULongLong(parsed.size)
  IN IF acc.buffer = <<>> THEN emit_error(acc, sock)
     ELSE IF ~endsWith(acc.buffer, CRLF) THEN Ret(acc, sock, FALSE)
     ELSE IF startsWith(acc.buffer, <<")">>) THEN Ret(acc, sock, TRUE)
     ELSE IF ~parsed.ok THEN emit_error(acc, sock)
     ELSE IF ~size.ok THEN emit_error([acc EXCEPT !.bytes_to_read = 0], sock)
     ELSE handle_raw_sock_read(
            [acc EXCEPT !.bytes_to_read = size.val, !.field = parsed.field], sock)

\* the first half of the loop body of _handle_raw: fetch next field header
handle_raw_sock_line(r) == handle_raw_sock_header(r.acc, r.dev)

_handle_raw_sock(acc, sock) ==
  IF acc.bytes_to_read <= 0 THEN handle_raw_sock_line(sock_read_line(acc, sock))
  ELSE handle_raw_sock_read(acc, sock)

\* _handle_untagged after its _handle_raw call returned r
untagged_sock_raw_ret(r) ==
  IF ~r.ret THEN r ELSE Ret([r.acc EXCEPT !.raw_mode = FALSE], r.dev, TRUE)

\* _handle_untagged for a line UNTAGGED_FETCH_REG matches
untagged_sock_fetch(acc, sock, parsed) ==
  LET id == toULongLong(parsed.id)
      size == toULongLong(parsed.size)
  IN IF ~id.ok THEN emit_error([acc EXCEPT !.id = 0], sock)
     ELSE IF ~size.ok
     THEN emit_error([acc EXCEPT !.id = id.val, !.bytes_to_read = 0], sock)
     ELSE untagged_sock_raw_ret(
            _handle_raw_sock([acc EXCEPT !.id = id.val,
                                         !.bytes_to_read = size.val,
                                         !.field = parsed.field,
                                         !.raw_mode = TRUE], sock))

_handle_untagged_sock(acc, sock) ==
  LET fetch == UNTAGGED_FETCH_REG_sock(acc.buffer)
      lead == UNTAGGED_REG(acc.buffer)
      trail == UNTAGGED_TRAILING_REG(acc.buffer)
  IN IF fetch.ok THEN untagged_sock_fetch(acc, sock, fetch)
     ELSE IF lead.ok
     THEN Ret([acc EXCEPT !.untagged =
                 Append(@, <<enum_value(lead.type), lead.data>>)], sock, TRUE)
     ELSE IF trail.ok
     THEN Ret([acc EXCEPT !.untagged_trailing =
                 Append(@, <<enum_value(trail.type), trail.data>>)], sock, TRUE)
     ELSE emit_error(acc, sock)

RECURSIVE _handle_command_sock(_, _)

\* the loop of _handle_command after a handler call returned h: continue
command_sock_continue(h) ==
  IF ~h.ret THEN h ELSE _handle_command_sock(h.acc, h.dev)

\* the loop body of _handle_command after the line was read into acc.buffer
command_sock_line(acc, sock) ==
  IF acc.buffer = <<>> THEN Ret(acc, sock, TRUE)
  ELSE IF ~endsWith(acc.buffer, CRLF) THEN Ret(acc, sock, FALSE)
  ELSE IF startsWith(acc.buffer, <<"*">>)
  THEN command_sock_continue(_handle_untagged_sock(acc, sock))
  ELSE IF startsWith(acc.buffer, acc.tag)
  THEN command_sock_continue(_handle_tagged_sock(acc, sock))
  ELSE emit_error(acc, sock)

command_sock_read(r) == command_sock_line(r.acc, r.dev)

_handle_command_sock(acc, sock) == command_sock_read(sock_read_line(acc, sock))

\* digest after its _handle_raw call, if any, returned r
digest_sock_raw_ret(r) ==
  IF ~r.ret THEN r
  ELSE _handle_command_sock([r.acc EXCEPT !.raw_mode = FALSE], r.dev)

\* IMAPResponse::digest(): reads what the socket holds
digest_sock(acc, sock) ==
  digest_sock_raw_ret(IF acc.raw_mode THEN _handle_raw_sock(acc, sock)
                      ELSE Ret(acc, sock, TRUE))

(***************************************************************************)
(* The response handlers (src/client/imap/*.cpp). A handler calls the      *)
(* error handler, the success handler, or neither                          *)
(***************************************************************************)
E_NOERR == "E_NOERR"
E_DUPLICATE == "E_DUPLICATE"
E_INTERNAL == "E_INTERNAL"
E_UNEXPECTED == "E_UNEXPECTED"
E_NOTCONNECTED == "E_NOTCONNECTED"
E_BADCOMMAND == "E_BADCOMMAND"
E_LOGIN == "E_LOGIN"
E_REFERENCE == "E_REFERENCE"
E_PARSE == "E_PARSE"

\* a message the client words itself is kept as one unit of text
Msg(text) == <<text>>

HError(err, estr) ==
  [kind |-> "error", err |-> err, estr |-> estr, type |-> "", value |-> <<>>]
HSuccess(type, value) ==
  [kind |-> "success", err |-> E_NOERR, estr |-> <<>>, type |-> type, value |-> value]
HNone == [kind |-> "none", err |-> E_NOERR, estr |-> <<>>, type |-> "", value |-> <<>>]

\* the checks most handlers start with, then is the handler's result past them
tagged_no_bad(resp, no, then) ==
  IF Len(resp.tagged) # 1 THEN HError(E_UNEXPECTED, Msg("Unexpected tagged response"))
  ELSE IF resp.tagged[1][1] = R_NO THEN HError(no, resp.tagged[1][2])
  ELSE IF resp.tagged[1][1] = R_BAD THEN HError(E_BADCOMMAND, resp.tagged[1][2])
  ELSE then

imap_handle_login(resp) == tagged_no_bad(resp, E_LOGIN, HSuccess("Login", <<>>))

imap_handle_logout(resp) ==
  IF Len(resp.tagged) # 1 THEN HError(E_UNEXPECTED, Msg("Unexpected tagged response"))
  ELSE IF resp.tagged[1][1] # R_OK THEN HError(E_BADCOMMAND, resp.tagged[1][2])
  ELSE HNone

\* a handler that reports errors and keeps its success to itself
imap_handle_silent(resp) == imap_handle_logout(resp)

imap_handle_noop(resp) ==
  IF Len(resp.tagged) # 1 THEN HError(E_UNEXPECTED, Msg("Unexpected tagged response"))
  ELSE IF resp.tagged[1][1] # R_OK THEN HError(E_BADCOMMAND, resp.tagged[1][2])
  ELSE HSuccess("Noop", <<>>)

imap_handle_fetch(resp) == tagged_no_bad(resp, E_REFERENCE, HSuccess("int", <<1>>))

\* the number of characters from s[i] on that are not c
RunNot(s, i, c) ==
  LET at == {n \in i..Len(s) : s[n] = c}
  IN IF at = {} THEN Max(0, Len(s) - i + 1) ELSE FirstIn(at) - i

\* QString::split(c, Qt::SkipEmptyParts)
RECURSIVE split(_, _)
split(s, c) ==
  IF s = <<>> THEN <<>>
  ELSE IF s[1] = c THEN split(Tail(s), c)
  ELSE <<SubSeq(s, 1, RunNot(s, 1, c))>> \o split(From(s, RunNot(s, 1, c) + 1), c)

\* a loop over the items that gives up at the first item that is no number
RECURSIVE search_items_stop(_)
search_items_stop(items) ==
  IF items = <<>> THEN <<>>
  ELSE IF toULongLong(Head(items)).ok
  THEN <<toULongLong(Head(items)).val>> \o search_items_stop(Tail(items))
  ELSE <<>>

\* the loop of imap_handle_search over the items of the untagged line
RECURSIVE search_items(_)
search_items(items) ==
  IF items = <<>> THEN <<>>
  ELSE IF toULongLong(Head(items)).ok
  THEN <<toULongLong(Head(items)).val>> \o search_items(Tail(items))
  ELSE search_items(Tail(items))

imap_handle_search(resp) ==
  tagged_no_bad(resp, E_REFERENCE,
    IF Len(resp.untagged) # 1
    THEN HError(E_UNEXPECTED, Msg("Unexpected untagged response"))
    ELSE HSuccess("Search", search_items(split(resp.untagged[1][2], " "))))

\* \((?P<attrs>[^)]+)\) "(?P<parent>[^"]+)" "(?P<name>[^"]+)" tried at s[i]
LIST_REG_at(s, i) ==
  LET a == RunNot(s, i + 1, ")")
      p == i + a + 4
      pl == RunNot(s, p, "\"")
      n == p + pl + 3
      nl == RunNot(s, n, "\"")
  IN IF /\ s[i] = "(" /\ a >= 1
        /\ startsWith(From(s, i + a + 1), <<")", " ", "\"">>)
        /\ pl >= 1 /\ startsWith(From(s, p + pl), <<"\"", " ", "\"">>)
        /\ nl >= 1 /\ n + nl <= Len(s) /\ s[n + nl] = "\""
     THEN [ok |-> TRUE, attrs |-> SubSeq(s, i + 1, i + a),
           parent |-> SubSeq(s, p, p + pl - 1), name |-> SubSeq(s, n, n + nl - 1)]
     ELSE NoMatch

LIST_REG(s) ==
  LET i == FirstIn({n \in 1..Len(s) : LIST_REG_at(s, n).ok})
  IN IF i = 0 THEN NoMatch ELSE LIST_REG_at(s, i)

\* the words of attrs_str as they stand
_parse_attrs_keep(attrs_str) == split(attrs_str, " ")

\* _parse_attrs: the words of attrs_str, each without its leading backslash
_parse_attrs(attrs_str) ==
  LET attrs == split(attrs_str, " ")
  IN [k \in 1..Len(attrs) |->
        IF attrs[k][1] = "\\" THEN Tail(attrs[k]) ELSE attrs[k]]

\* a loop over the untagged lines that ends at the first line it cannot use
RECURSIVE list_items_stop(_)
list_items_stop(untagged) ==
  IF untagged = <<>> THEN <<>>
  ELSE LET parsed == LIST_REG(Head(untagged)[2])
       IN IF Head(untagged)[1] # R_LIST \/ ~parsed.ok THEN <<>>
          ELSE <<[parent |-> parsed.parent, name |-> parsed.name,
                  attrs |-> _parse_attrs(parsed.attrs)]>>
               \o list_items_stop(Tail(untagged))

\* the loop of imap_handle_list over the untagged lines
RECURSIVE list_items(_)
list_items(untagged) ==
  IF untagged = <<>> THEN <<>>
  ELSE LET parsed == LIST_REG(Head(untagged)[2])
       IN IF Head(untagged)[1] # R_LIST \/ ~parsed.ok THEN list_items(Tail(untagged))
          ELSE <<[parent |-> parsed.parent, name |-> parsed.name,
                  attrs |-> _parse_attrs(parsed.attrs)]>>
               \o list_items(Tail(untagged))

imap_handle_list(resp) ==
  tagged_no_bad(resp, E_REFERENCE, HSuccess("List", list_items(resp.untagged)))

\* \((?P<attrs>[^)]+)\) searched in s
ATTRS_REG(s) ==
  LET i == FirstIn({n \in 1..Len(s) :
                      /\ s[n] = "(" /\ RunNot(s, n + 1, ")") >= 1
                      /\ n + 1 + RunNot(s, n + 1, ")") <= Len(s)})
  IN IF i = 0 THEN NoMatch
     ELSE [ok |-> TRUE, attrs |-> SubSeq(s, i + 1, i + RunNot(s, i + 1, ")"))]

\* (?P<data>[^)]+)(\))?\] with the data starting at s[d]: the length of the
\* data, the greedy run giving back characters until "]" or ")]" follows; 0
\* when there is no match
BracketData(s, d) ==
  LastIn({l \in 1..RunNot(s, d, ")") :
            \/ startsWith(From(s, d + l), <<")", "]">>)
            \/ startsWith(From(s, d + l), <<"]">>)})

\* \[(?P<type>[A-Z-]+)( (\()?(?P<data>[^)]+)(\))?)?\] tried at s[i]: first
\* with "(" taken, then with it left to the data, then without the group
SELECT_BRACKET_REG_at(s, i) ==
  LET e == i + 1 + RunLen(s, i + 1, UpperHyphen)
      type == SubSeq(s, i + 1, e - 1)
      group == e <= Len(s) /\ s[e] = " "
  IN IF ~(s[i] = "[" /\ e > i + 1) THEN NoMatch
     ELSE IF group /\ startsWith(From(s, e + 1), <<"(">>) /\ BracketData(s, e + 2) # 0
     THEN [ok |-> TRUE, type |-> type, hasData |-> TRUE,
           data |-> SubSeq(s, e + 2, e + 1 + BracketData(s, e + 2))]
     ELSE IF group /\ BracketData(s, e + 1) # 0
     THEN [ok |-> TRUE, type |-> type, hasData |-> TRUE,
           data |-> SubSeq(s, e + 1, e + BracketData(s, e + 1))]
     ELSE IF e <= Len(s) /\ s[e] = "]"
     THEN [ok |-> TRUE, type |-> type, hasData |-> FALSE, data |-> <<>>]
     ELSE NoMatch

SELECT_BRACKET_REG(s) ==
  LET i == FirstIn({n \in 1..Len(s) : SELECT_BRACKET_REG_at(s, n).ok})
  IN IF i = 0 THEN NoMatch ELSE SELECT_BRACKET_REG_at(s, i)

\* response::Select{} with the members' initial values
Select0 ==
  [exists |-> 0, recent |-> 0, unseen |-> 0, uidvalidity |-> 0, flags |-> <<>>,
   permanent_flags |-> <<>>, permission |-> <<>>]

\* the loop of imap_handle_select over the untagged trailing lines
RECURSIVE select_trailing(_, _)
select_trailing(sel, items) ==
  IF items = <<>> THEN sel
  ELSE LET n == toULongLong(Head(items)[2])
       IN select_trailing(
            IF Head(items)[1] = R_EXISTS /\ n.ok THEN [sel EXCEPT !.exists = n.val]
            ELSE IF Head(items)[1] = R_RECENT /\ n.ok THEN [sel EXCEPT !.recent = n.val]
            ELSE sel,
            Tail(items))

\* the second statement of the loop over the untagged lines, for one item
select_bracket(sel, item) ==
  LET parsed == SELECT_BRACKET_REG(item[2])
      n == toULongLong(parsed.data)
  IN IF ~(item[1] = R_OK /\ parsed.ok) THEN sel
     ELSE IF parsed.type = <<"U", "N", "S", "E", "E", "N">> /\ parsed.hasData
     THEN IF n.ok THEN [sel EXCEPT !.unseen = n.val] ELSE sel
     ELSE IF parsed.type = <<"U", "I", "D", "V", "A", "L", "I", "D", "I", "T", "Y">>
             /\ parsed.hasData
     THEN IF n.ok THEN [sel EXCEPT !.uidvalidity = n.val] ELSE sel
     ELSE IF parsed.type = <<"P", "E", "R", "M", "A", "N", "E", "N", "T",
                             "F", "L", "A", "G", "S">> /\ parsed.hasData
     THEN [sel EXCEPT !.permanent_flags = _parse_attrs(parsed.data)]
     ELSE sel

\* the first statement of the loop over the untagged lines, for one item
select_flags(sel, item) ==
  LET parsed == ATTRS_REG(item[2])
  IN IF item[1] = R_FLAGS /\ parsed.ok
     THEN [sel EXCEPT !.flags = _parse_attrs(parsed.attrs)] ELSE sel

\* the loop of imap_handle_select over the untagged lines
RECURSIVE select_untagged(_, _)
select_untagged(sel, items) ==
  IF items = <<>> THEN sel
  ELSE select_untagged(select_bracket(select_flags(sel, Head(items)), Head(items)),
                       Tail(items))

\* select_resp.permission from the text of the tagged line
select_permission(sel, data) ==
  LET parsed == SELECT_BRACKET_REG(data)
  IN IF parsed.ok THEN [sel EXCEPT !.permission = parsed.type] ELSE sel

imap_handle_select(resp) ==
  tagged_no_bad(resp, E_REFERENCE,
    HSuccess("Select",
      <<select_untagged(
          select_trailing(select_permission(Select0, resp.tagged[1][2]),
                          resp.untagged_trailing),
          resp.untagged)>>))

LOGIN == "LOGIN"
LOGOUT == "LOGOUT"
LIST == "LIST"
SELECT == "SELECT"
NOOP == "NOOP"
SEARCH == "SEARCH"
FETCH == "FETCH"
Command == {LOGIN, LOGOUT, LIST, SELECT, NOOP, SEARCH, FETCH}

\* IMAP::RESPONSE_HANDLER[type](resp, ...)
RESPONSE_HANDLER(type, resp) ==
  CASE type = LOGIN -> imap_handle_login(resp)
    [] type = LOGOUT -> imap_handle_logout(resp)
    [] type = LIST -> imap_handle_list(resp)
    [] type = SELECT -> imap_handle_select(resp)
    [] type = NOOP -> imap_handle_noop(resp)
    [] type = SEARCH -> imap_handle_search(resp)
    [] type = FETCH -> imap_handle_fetch(resp)

(***************************************************************************)
(* TagGenerator (src/tag.cpp)                                              *)
(***************************************************************************)
MAX_TAG_INDEX == 999

\* QString::arg(index, 3, TAG_BASE, '0'): the decimal digits, padded with 0
\* to the width of three
TagDigits(index) ==
  [i \in 1..(3 - Len(NatToDigits(index))) |-> "0"] \o NatToDigits(index)

\* a generator whose index never wraps
generate_nowrap(tags) ==
  [tag |-> <<tags.tag>> \o TagDigits(tags.idx),
   tags |-> [tags EXCEPT !.idx = tags.idx + 1]]

\* TagGenerator::generate: the tag, and the generator after the call
generate(tags) ==
  [tag |-> <<tags.tag>> \o TagDigits(tags.idx),
   tags |-> [tags EXCEPT !.idx = IF tags.idx + 1 > MAX_TAG_INDEX THEN 0
                                 ELSE tags.idx + 1]]

(***************************************************************************)
(* The client engine IMAP (unnamed/part_003), its socket and the server    *)
(***************************************************************************)
S_DISCONNECT == "S_DISCONNECT"
S_CONNECT == "S_CONNECT"
S_AUTHENTICATE == "S_AUTHENTICATE"

DISCONNECT_TAG == <<"D", "I", "S", "C", "O", "N", "N", "E", "C", "T">>
GreetingTag == <<"A", "0", "0", "0">>

\* the accumulator fed one stream in chunks
VARIABLES
  d_items,   \* the stream being fed, as its lines and FETCH blocks
  d_rest,    \* its bytes not yet handed to digest
  d_cutLit,  \* how many bytes of a literal the chunks held when the latest
             \* chunk to end between two bytes of a literal ended, 0 if none did
  d_acc,     \* the accumulator
  d_out      \* what the last digest call reported

digestVars == <<d_items, d_rest, d_cutLit, d_acc, d_out>>

\* A handler applied to a completed accumulator: the bytes it was fed, the
\* parser that read them ("device" or "socket"), the accumulator, the command
\* whose handler ran ("none" before), what the handler called.
VARIABLES h_in, h_parser, h_acc, h_cmd, h_out

handlerVars == <<h_in, h_parser, h_acc, h_cmd, h_out>>

\* A TagGenerator on its own: the generator, and the tags its calls returned.
VARIABLES t_tags, t_out

tagVars == <<t_tags, t_out>>

\* no generator is run on its own
TagsIdle == t_tags = [tag |-> "-", idx |-> 0] /\ t_out = <<>>

\* A caller blocked in Base::_wait_for_event: which signal it waits for, how
\* long fired was when the wait began, whether the timer or a socket error
\* has told the event loop to quit; and of the last wait that returned: which
\* it was, what it returned, and whether its signal and error_occurred were
\* emitted while it lasted.
VARIABLES waiter

waitVars == <<waiter>>

NoWaiter ==
  [kind |-> "none", from |-> 0, quit |-> "no", of |-> "none", ret |-> "-",
   sig |-> FALSE, err |-> FALSE]

\* nobody waits
WaitIdle == waiter = NoWaiter

\* Execution contexts inside IMAP::_request: where each one is, and the index
\* it loaded from the tag generator
VARIABLES prod

prodVars == <<prod>>

Producers == {1, 2}

\* no context is inside _request
ProdIdle == prod = [t \in Producers |-> [pc |-> "out", idx |-> 0]]

\* The callbacks of one connection on their own: the TagGenerator, the pending
\* commands (type, number, tag), the registered callbacks (tag -> the command
\* whose callback it is), how many commands were submitted, and the command
\* that completed last with the callback its completion invoked (0: none)
VARIABLES cbs

cbVars == <<cbs>>

NoInvocation == [n |-> 0, cb |-> 0]

CbIdle ==
  cbs = [tags |-> [tag |-> "-", idx |-> 0], resp |-> <<>>, callback |-> <<>>,
         issued |-> 0, invoked |-> NoInvocation]

otherVars == <<digestVars, handlerVars, tagVars, waitVars, prodVars, cbVars>>

\* the engine
VARIABLES
  _status,         \* IMAP::_status
  _error,          \* the error type _trig_error stored last
  _estr,           \* its message
  _tags,           \* the TagGenerator, NoTags for nullptr
  _resp,           \* the pending commands, oldest first: type, accumulator
  _resp_callback,  \* key -> the callback stored under it
  _queue,          \* the payloads read() hands out
  sock_state,      \* QSslSocket: Unconnected, Connecting, Connected, Closing
  sock_rd,         \* bytes that arrived and were not read yet
  sock_wr,         \* the command lines written on this connection
  signals,         \* whether readyRead and errorOccurred are connected
  wire,            \* bytes the server sent that did not arrive yet
  greeting,        \* the greeting the server has just sent, until the next step
  answered,        \* the server's answers to the written commands, in order
  issued,          \* how many commands were enqueued so far
  connects,        \* how many connections were started so far
  fired            \* the callbacks, command errors and signals so far

engineVars ==
  <<_status, _error, _estr, _tags, _resp, _resp_callback, _queue, sock_state,
    sock_rd, sock_wr, signals, wire, greeting, answered, issued, connects, fired>>

vars == <<engineVars, digestVars, handlerVars, tagVars, waitVars, prodVars, cbVars>>

NoTags == [tag |-> "-", idx |-> 0]

\* the letters a TagGenerator may draw as its prefix
TagLetters == {"A"}

MaxCmds == 2
MaxConnects == 1
ChunkLen == 8

EngineInit ==
  /\ _status = S_DISCONNECT /\ _error = E_NOERR /\ _estr = <<>>
  /\ _tags = NoTags /\ _resp = <<>> /\ _resp_callback = <<>> /\ _queue = <<>>
  /\ sock_state = "Unconnected" /\ sock_rd = <<>> /\ sock_wr = <<>>
  /\ signals = FALSE /\ wire = <<>> /\ greeting = <<>> /\ answered = <<>>
  /\ issued = 0 /\ connects = 0 /\ fired = <<>>

\* an entry of fired: a callback (cb names whose), a command's error, a
\* signal, the payload of command n returned by read, or command n submitted
Fired(ev, n, cb, err) == [ev |-> ev, n |-> n, cb |-> cb, err |-> err]

\* IMAP::_trig_error(err, estr)
_trig_error(err, estr) == _error' = err /\ _estr' = estr

is_connected == _status = S_CONNECT \/ _status = S_AUTHENTICATE

\* QMap::insert and QMap::remove
mapInsert(m, key, v) ==
  IF key \in DOMAIN m THEN [m EXCEPT ![key] = v] ELSE m @@ (key :> v)
mapRemove(m, key) == [k \in DOMAIN m \ {key} |-> m[k]]

\* a connect_to_host that registers its callback before it looks at the state
connect_to_host_again ==
  /\ IF is_connected
     THEN /\ _trig_error(E_DUPLICATE, Msg("Connection has established"))
          /\ _resp_callback' = mapInsert(_resp_callback, CONNECT_TAG, 0)
          /\ UNCHANGED <<sock_state, connects>>
     ELSE /\ connects < MaxConnects
          /\ _resp_callback' = mapInsert(_resp_callback, CONNECT_TAG, 0)
          /\ sock_state' = IF sock_state = "Unconnected" THEN "Connecting"
                           ELSE sock_state
          /\ connects' = connects + 1
          /\ UNCHANGED <<_error, _estr>>
  /\ greeting' = <<>> /\ UNCHANGED <<_status, _tags, _resp, _queue, sock_rd, sock_wr, signals, wire,
                 answered, issued, fired, otherVars>>

connect_to_host ==
  /\ IF is_connected
     THEN /\ _trig_error(E_DUPLICATE, Msg("Connection has established"))
          /\ UNCHANGED <<_resp_callback, sock_state, connects>>
     ELSE /\ connects < MaxConnects
          /\ _resp_callback' = mapInsert(_resp_callback, CONNECT_TAG, 0)
          /\ sock_state' = IF sock_state = "Unconnected" THEN "Connecting"
                           ELSE sock_state
          /\ connects' = connects + 1
          /\ UNCHANGED <<_error, _estr>>
  /\ greeting' = <<>> /\ UNCHANGED <<_status, _tags, _resp, _queue, sock_rd, sock_wr, signals, wire,
                 answered, issued, fired, otherVars>>

disconnect_from_host ==
  /\ IF _status = S_DISCONNECT
     THEN /\ _trig_error(E_DUPLICATE, Msg("Connection has not established"))
          /\ UNCHANGED <<_resp_callback, sock_state>>
     ELSE /\ _resp_callback' = mapInsert(_resp_callback, DISCONNECT_TAG, 0)
          /\ sock_state' = IF sock_state = "Connected" THEN "Closing" ELSE sock_state
          /\ UNCHANGED <<_error, _estr>>
  /\ greeting' = <<>> /\ UNCHANGED <<_status, _tags, _resp, _queue, sock_rd, sock_wr, signals, wire,
                 answered, issued, connects, fired, otherVars>>

\* a refusal that raises the error connect_to_host raises
request_duplicate ==
  /\ _trig_error(E_DUPLICATE, Msg("Connection has established"))
  /\ UNCHANGED <<_tags, _resp, _resp_callback, sock_wr, issued, fired>>

\* IMAP::_request refusing a command while disconnected
request_not_connected ==
  /\ _trig_error(E_NOTCONNECTED, Msg("Connection has not established"))
  /\ UNCHANGED <<_tags, _resp, _resp_callback, sock_wr, issued, fired>>

\* IMAP::_request from the generated tag on: the entry, the callback, the
\* bytes; nothing looks at whether write or flush succeeded
request_enqueue(type, cmd) ==
  \E g \in {generate(_tags)} :
     /\ _tags' = g.tags
     /\ _resp' = Append(_resp, [type |-> type, n |-> issued + 1,
                                acc |-> IMAPResponse(g.tag)])
     /\ _resp_callback' = IF g.tag \in DOMAIN _resp_callback
                          THEN _resp_callback
                          ELSE _resp_callback @@ (g.tag :> issued + 1)
     /\ sock_wr' = IF sock_state = "Connected"
                   THEN Append(sock_wr, g.tag \o SP \o cmd \o CRLF)
                   ELSE sock_wr
     /\ fired' = Append(fired, Fired("request", issued + 1, 0, E_NOERR))

\* IMAP::_request(type, cmd, callback)
_request(type, cmd) ==
  /\ IF _status = S_DISCONNECT
     THEN request_not_connected
     ELSE /\ issued < MaxCmds
          /\ request_enqueue(type, cmd)
          /\ issued' = issued + 1
          /\ UNCHANGED <<_error, _estr>>
  /\ greeting' = <<>> /\ UNCHANGED <<_status, _queue, sock_state, sock_rd, signals, wire, answered,
                 connects, otherVars>>

\* an API call that only raises an error
error_only(err, estr) ==
  /\ _trig_error(err, estr)
  /\ greeting' = <<>> /\ UNCHANGED <<_status, _tags, _resp, _resp_callback, _queue, sock_state, sock_rd,
                 sock_wr, signals, wire, answered, issued, connects, fired>>

ErrorOnly(err, estr) == error_only(err, estr) /\ UNCHANGED otherVars

\* the arguments the commands are called with
Username == <<"u">>
Password == <<"p">>
Path == <<"a">>
Pattern == <<"%">>
Criteria == <<"A", "L", "L">>

login ==
  IF _status = S_AUTHENTICATE THEN ErrorOnly(E_DUPLICATE, Msg("Already authenticated"))
  ELSE _request(LOGIN, <<"L", "O", "G", "I", "N">> \o SP \o Username \o SP \o Password)

logout ==
  IF _status = S_CONNECT THEN disconnect_from_host
  ELSE _request(LOGOUT, <<"L", "O", "G", "O", "U", "T">>)

list == _request(LIST, R_LIST \o SP \o Path \o SP \o Pattern)

select == _request(SELECT, <<"S", "E", "L", "E", "C", "T">> \o SP \o Path)

noop == _request(NOOP, <<"N", "O", "O", "P">>)

search == _request(SEARCH, R_SEARCH \o SP \o Criteria)

\* request::Fetch::Field, an enumeration over uint8_t
ENVELOPE == 1
MIME == 2
TEXT == 4

ENVELOPE_TOKEN ==
  <<"B", "O", "D", "Y", ".", "P", "E", "E", "K", "[", "H", "E", "A", "D", "E", "R",
    ".", "F", "I", "E", "L", "D", "S", " ", "(", "D", "A", "T", "E", " ", "S", "U",
    "B", "J", "E", "C", "T", " ", "F", "R", "O", "M", " ", "T", "O", ")", "]">>
MIME_TOKEN ==
  <<"B", "O", "D", "Y", ".", "P", "E", "E", "K", "[", "H", "E", "A", "D", "E", "R",
    ".", "F", "I", "E", "L", "D", "S", " ", "(", "C", "O", "N", "T", "E", "N", "T",
    "-", "T", "Y", "P", "E", ")", "]", " ", "B", "O", "D", "Y", ".", "P", "E", "E",
    "K", "[", "1", ".", "M", "I", "M", "E", "]">>

\* IMAP::FETCH_FIELD[field] of the constant map: the value of the key, and a
\* default-constructed (empty) string for a value that is no key
FETCH_FIELD(field) ==
  CASE field = ENVELOPE -> ENVELOPE_TOKEN
    [] field = MIME -> MIME_TOKEN
    [] field = TEXT -> BODY1
    [] OTHER -> <<>>

\* fetch(id, field, range), field being the value of the flags passed
fetch(id, field, range) ==
  _request(FETCH,
           R_FETCH \o SP
           \o (IF range <= 1 THEN NatToDigits(id)
               ELSE NatToDigits(id) \o <<":">> \o NatToDigits(id + range - 1))
           \o SP \o FETCH_FIELD(field))

\* a read that takes the newest payload
read_newest ==
  /\ _queue' = IF _queue = <<>> THEN _queue ELSE SubSeq(_queue, 1, Len(_queue) - 1)
  /\ fired' = IF _queue = <<>> THEN fired
              ELSE Append(fired, Fired("read", _queue[Len(_queue)].n, 0, E_NOERR))
  /\ greeting' = <<>> /\ UNCHANGED <<_status, _error, _estr, _tags, _resp, _resp_callback, sock_state,
                 sock_rd, sock_wr, signals, wire, answered, issued, connects,
                 otherVars>>

read ==
  /\ _queue' = IF _queue = <<>> THEN _queue ELSE Tail(_queue)
  /\ fired' = IF _queue = <<>> THEN fired
              ELSE Append(fired, Fired("read", Head(_queue).n, 0, E_NOERR))
  /\ greeting' = <<>> /\ UNCHANGED <<_status, _error, _estr, _tags, _resp, _resp_callback, sock_state,
                 sock_rd, sock_wr, signals, wire, answered, issued, connects,
                 otherVars>>

\* what Base::wait_for_ready_read returns once its event loop has quit
wait_for_ready_read == _error = E_NOERR

\* _on_connected from the greeting's digest on: resp is what digest returned
on_connected_greeting(resp, letter) ==
  IF /\ resp.ret /\ Len(resp.acc.untagged) = 1
     /\ resp.acc.untagged[1][1] \in {R_OK, R_PREAUTH}
  THEN /\ _status' = IF resp.acc.untagged[1][1] = R_OK THEN S_CONNECT
                     ELSE S_AUTHENTICATE
       /\ _tags' = [tag |-> letter, idx |-> 0]
       /\ signals' = TRUE
       /\ _resp_callback' = mapRemove(_resp_callback, CONNECT_TAG)
       /\ fired' = fired
                   \o (IF CONNECT_TAG \in DOMAIN _resp_callback
                       THEN <<Fired("connect_cb", 0, _resp_callback[CONNECT_TAG],
                                    E_NOERR)>>
                       ELSE <<>>)
                   \o <<Fired("connected", 0, 0, E_NOERR)>>
       /\ UNCHANGED <<_error, _estr>>
  ELSE /\ _trig_error(E_UNEXPECTED, Msg("Unexpected tagged response"))
       /\ UNCHANGED <<_status, _tags, signals, _resp_callback, fired>>

\* the socket reports connected; the server sends the greeting g, of which k
\* bytes are there when waitForReadyRead returns (none: it timed out)
_on_connected(g, k, letter) ==
  /\ sock_state = "Connecting"
  /\ sock_state' = "Connected"
  /\ wire' = wire \o From(g, k + 1)
  /\ greeting' = g
  /\ IF k = 0
     THEN /\ _trig_error(E_INTERNAL, Msg("socket error"))
          /\ UNCHANGED <<_status, _tags, signals, _resp_callback, fired, sock_rd>>
     ELSE \E resp \in {digest_sock(IMAPResponse(GreetingTag),
                                   sock_rd \o SubSeq(g, 1, k))} :
            /\ sock_rd' = resp.dev
            /\ on_connected_greeting(resp, letter)
  /\ UNCHANGED <<_resp, _queue, sock_wr, answered, issued, connects, otherVars>>

\* the socket reports disconnected: the client or the server closed it
_on_disconnected ==
  /\ sock_state \in {"Connected", "Closing"}
  /\ sock_state' = "Unconnected"
  /\ sock_rd' = <<>> /\ sock_wr' = <<>> /\ wire' = <<>> /\ answered' = <<>>
  /\ signals' = FALSE
  /\ _tags' = NoTags
  /\ _status' = S_DISCONNECT
  /\ _resp_callback' = mapRemove(_resp_callback, DISCONNECT_TAG)
  /\ fired' = fired
              \o (IF DISCONNECT_TAG \in DOMAIN _resp_callback
                  THEN <<Fired("disconnect_cb", 0, _resp_callback[DISCONNECT_TAG],
                               E_NOERR)>>
                  ELSE <<>>)
              \o <<Fired("disconnected", 0, 0, E_NOERR)>>
  /\ greeting' = <<>> /\ UNCHANGED <<_error, _estr, _resp, _queue, issued, connects, otherVars>>

\* the socket reports an error and stays open
_on_error_occurred ==
  /\ signals /\ sock_state = "Connected"
  /\ ErrorOnly(E_INTERNAL, Msg("socket error"))

\* the status the success lambda of _on_ready_read leaves
success_status(type, status) == IF type = LOGIN THEN S_AUTHENTICATE ELSE status

\* a parse error that drops every pending command
on_parse_error_clear(head) ==
  /\ _trig_error(E_PARSE, Msg("Invalid response"))
  /\ _resp' = <<>>
  /\ fired' = Append(fired, Fired("error", head.n, 0, E_PARSE))
  /\ UNCHANGED <<_status, _resp_callback, _queue>>

\* _on_ready_read when the head's accumulator reports an error
on_parse_error(head) ==
  /\ _trig_error(E_PARSE, Msg("Invalid response"))
  /\ _resp' = Tail(_resp)
  /\ fired' = Append(fired, Fired("error", head.n, 0, E_PARSE))
  /\ UNCHANGED <<_status, _resp_callback, _queue>>

\* a completion that queues the payload and emits no ready_read
on_ready_read_handled_quiet(head, h) ==
  /\ _resp' = Tail(_resp)
  /\ CASE h.kind = "error" ->
            /\ _trig_error(h.err, h.estr)
            /\ fired' = Append(fired, Fired("error", head.n, 0, h.err))
            /\ UNCHANGED <<_status, _resp_callback, _queue>>
       [] h.kind = "success" ->
            /\ _status' = success_status(head.type, _status)
            /\ _resp_callback' = mapRemove(_resp_callback, head.acc.tag)
            /\ _queue' = IF head.type = LOGOUT THEN _queue
                         ELSE Append(_queue, [n |-> head.n, type |-> h.type,
                                              value |-> h.value])
            /\ fired' = fired
                        \o (IF head.acc.tag \in DOMAIN _resp_callback
                            THEN <<Fired("callback", head.n,
                                         _resp_callback[head.acc.tag], E_NOERR)>>
                            ELSE <<>>)
            /\ UNCHANGED <<_error, _estr>>
       [] h.kind = "none" ->
            UNCHANGED <<_status, _error, _estr, _resp_callback, _queue, fired>>

\* _on_ready_read from the handler's return on, for the head entry
on_ready_read_handled(head, h) ==
  /\ _resp' = Tail(_resp)
  /\ CASE h.kind = "error" ->
            /\ _trig_error(h.err, h.estr)
            /\ fired' = Append(fired, Fired("error", head.n, 0, h.err))
            /\ UNCHANGED <<_status, _resp_callback, _queue>>
       [] h.kind = "success" ->
            /\ _status' = success_status(head.type, _status)
            /\ _resp_callback' = mapRemove(_resp_callback, head.acc.tag)
            /\ _queue' = IF head.type = LOGOUT THEN _queue
                         ELSE Append(_queue, [n |-> head.n, type |-> h.type,
                                              value |-> h.value])
            /\ fired' = fired
                        \o (IF head.acc.tag \in DOMAIN _resp_callback
                            THEN <<Fired("callback", head.n,
                                         _resp_callback[head.acc.tag], E_NOERR)>>
                            ELSE <<>>)
                        \o (IF head.type = LOGOUT THEN <<>>
                            ELSE <<Fired("ready_read", head.n, 0, E_NOERR)>>)
            /\ UNCHANGED <<_error, _estr>>
       [] h.kind = "none" ->
            UNCHANGED <<_status, _error, _estr, _resp_callback, _queue, fired>>

\* an _on_ready_read that gives up on a head whose response is not all there
on_ready_read_digested_eager(head, r) ==
  /\ sock_rd' = r.dev
  /\ IF ~r.ret
     THEN on_parse_error(head)
     ELSE \E h \in {RESPONSE_HANDLER(head.type, r.acc)} :
            on_ready_read_handled([head EXCEPT !.acc = r.acc], h)

\* _on_ready_read from the return of the head's digest on
on_ready_read_digested(head, r) ==
  /\ sock_rd' = r.dev
  /\ IF ~r.ret
     THEN IF r.acc.error
          THEN on_parse_error(head)
          ELSE /\ _resp' = [_resp EXCEPT ![1].acc = r.acc]
               /\ UNCHANGED <<_status, _error, _estr, _resp_callback, _queue, fired>>
     ELSE \E h \in {RESPONSE_HANDLER(head.type, r.acc)} :
            on_ready_read_handled([head EXCEPT !.acc = r.acc], h)

\* IMAP::_on_ready_read with rd the bytes the socket holds
_on_ready_read(rd) ==
  IF _resp = <<>>
  THEN /\ sock_rd' = <<>>
       /\ UNCHANGED <<_status, _error, _estr, _resp, _resp_callback, _queue, fired>>
  ELSE \E r \in {digest_sock(_resp[1].acc, rd)} :
         on_ready_read_digested(_resp[1], r)

\* what the server may answer a command with
ResponseKinds == {"OK", "NO", "BAD", "DATA", "GARBAGE"}

\* the untagged lines a server has for the command word
ServerData(word) ==
  CASE word = R_LIST ->
         Star \o SP \o R_LIST \o SP
         \o <<"(", "\\", "N", ")", " ", "\"", "/", "\"", " ", "\"", "b", "\"">> \o CRLF
    [] word = R_SEARCH -> Star \o SP \o R_SEARCH \o SP \o <<"2", " ", "5">> \o CRLF
    [] word = R_FETCH ->
         Star \o SP \o <<"1">> \o FetchWord \o BODY1 \o <<" ", "{", "2", "}">> \o CRLF
         \o <<"h", "i", ")">> \o CRLF
    [] word = <<"L", "O", "G", "O", "U", "T">> ->
         Star \o SP \o R_BYE \o SP \o <<"x">> \o CRLF
    [] OTHER -> Star \o SP \o <<"3">> \o SP \o R_EXISTS \o CRLF

\* the bytes of an answer of the kind to the command line
ServerLines(kind, line) ==
  LET tag == SubSeq(line, 1, RunNot(line, 1, " "))
      rest == From(line, Len(tag) + 2)
      word == SubSeq(rest, 1, RunLen(rest, 1, Upper))
  IN CASE kind = "OK" -> tag \o SP \o R_OK \o SP \o <<"x">> \o CRLF
       [] kind = "NO" -> tag \o SP \o R_NO \o SP \o <<"x">> \o CRLF
       [] kind = "BAD" -> tag \o SP \o R_BAD \o SP \o <<"x">> \o CRLF
       [] kind = "DATA" -> ServerData(word) \o tag \o SP \o R_OK \o SP \o <<"x">> \o CRLF
       [] kind = "GARBAGE" -> <<"z", "z">> \o CRLF

\* the server answers the oldest command it has not answered yet
ServerRespond(kind) ==
  /\ sock_state = "Connected" /\ Len(answered) < Len(sock_wr)
  /\ wire' = wire \o ServerLines(kind, sock_wr[Len(answered) + 1])
  /\ answered' = Append(answered, [kind |-> kind, written |-> Len(sock_wr)])
  /\ greeting' = <<>> /\ UNCHANGED <<_status, _error, _estr, _tags, _resp, _resp_callback, _queue,
                 sock_state, sock_rd, sock_wr, signals, issued, connects, fired,
                 otherVars>>

\* the greetings a server may send
Greetings ==
  { Star \o SP \o kw \o SP \o <<"x">> \o CRLF :
      kw \in {R_OK, R_PREAUTH, R_BYE, R_NO, <<"H", "E", "L", "L", "O">>} }

\* how many bytes may arrive at once: a short chunk, or all that is in flight
DeliverSizes(n) == {n} \cup (IF n > ChunkLen THEN {ChunkLen} ELSE {})

\* k bytes arrive and the socket reports readyRead
Deliver(k) ==
  /\ sock_state = "Connected" /\ wire # <<>>
  /\ wire' = From(wire, k + 1)
  /\ IF signals THEN _on_ready_read(sock_rd \o SubSeq(wire, 1, k))
     ELSE /\ sock_rd' = sock_rd \o SubSeq(wire, 1, k)
          /\ UNCHANGED <<_status, _error, _estr, _resp, _resp_callback, _queue, fired>>
  /\ greeting' = <<>> /\ UNCHANGED <<_tags, sock_state, sock_wr, signals, answered, issued, connects,
                 otherVars>>

Next ==
  \/ connect_to_host
  \/ disconnect_from_host
  \/ login
  \/ logout
  \/ list
  \/ select
  \/ noop
  \/ search
  \/ fetch(1, TEXT, 1)
  \/ read
  \/ \E g \in Greetings : \E k \in {0} \cup DeliverSizes(Len(g)) :
       \E letter \in TagLetters : _on_connected(g, k, letter)
  \/ _on_disconnected
  \/ _on_error_occurred
  \/ \E kind \in ResponseKinds : ServerRespond(kind)
  \/ \E k \in DeliverSizes(Len(wire)) : Deliver(k)

\* no stream is being fed to an accumulator of its own
DigestIdle ==
  /\ d_items = <<>> /\ d_rest = <<>> /\ d_cutLit = 0
  /\ d_acc = IMAPResponse(<<>>) /\ d_out = "Idle"

\* no handler is being applied on its own
HandlerIdle ==
  /\ h_in = <<>> /\ h_parser = "none" /\ h_acc = IMAPResponse(<<>>)
  /\ h_cmd = "none" /\ h_out = HNone

Init == EngineInit /\ DigestIdle /\ HandlerIdle /\ TagsIdle /\ WaitIdle /\ ProdIdle /\ CbIdle

Spec == Init /\ [][Next]_vars

(***************************************************************************)
(* Server byte streams, written as the lines and FETCH blocks they are     *)
(* made of                                                                 *)
(***************************************************************************)
Line(text) == [k |-> "line", text |-> text]
Lit(field, content) == [field |-> field, content |-> content]
\* a FETCH block of message id: each literal as <field> {N} CRLF <N bytes>,
\* then sep and the closing parenthesis
Fetch(id, lits, sep) == [k |-> "fetch", id |-> id, lits |-> lits, sep |-> sep]

RECURSIVE RenderLits(_)
RenderLits(lits) ==
  IF lits = <<>> THEN <<>>
  ELSE LET l == Head(lits)
       IN l.field \o <<" ", "{">> \o NatToDigits(Len(l.content)) \o <<"}">> \o CRLF
          \o l.content
          \o (IF Tail(lits) = <<>> THEN <<>> ELSE SP \o RenderLits(Tail(lits)))

RenderItem(it) ==
  IF it.k = "line" THEN it.text \o CRLF
  ELSE Star \o SP \o NatToDigits(it.id) \o FetchWord \o RenderLits(it.lits)
       \o it.sep \o <<")">> \o CRLF

RECURSIVE Render(_)
Render(items) ==
  IF items = <<>> THEN <<>> ELSE RenderItem(Head(items)) \o Render(Tail(items))

\* the literals a stream declares: (message id, field, content)
RECURSIVE LiteralsOf(_)
LiteralsOf(items) ==
  IF items = <<>> THEN {}
  ELSE LET it == Head(items)
       IN (IF it.k = "fetch"
           THEN {<<it.id, it.lits[i].field, it.lits[i].content>> : i \in 1..Len(it.lits)}
           ELSE {})
          \cup LiteralsOf(Tail(items))

\* [first, last]: where in the rendered stream each literal's bytes lie
RECURSIVE LitRanges(_, _)
LitRanges(items, off) ==
  IF items = <<>> THEN {}
  ELSE LET it == Head(items)
           pre(i) == Len(Star \o SP \o NatToDigits(it.id) \o FetchWord
                         \o RenderLits(SubSeq(it.lits, 1, i)))
       IN (IF it.k = "fetch"
           THEN {<<off + pre(i) - Len(it.lits[i].content) + 1, off + pre(i)>> :
                   i \in 1..Len(it.lits)}
           ELSE {})
          \cup LitRanges(Tail(items), off + Len(RenderItem(it)))

T_OK_done == TagA004 \o SP \o R_OK \o SP \o <<"d", "o", "n", "e">>
T_OK_FETCH_done ==
  TagA004 \o SP \o R_OK \o SP \o R_FETCH \o SP \o <<"d", "o", "n", "e">>

\* every byte string of at most n bytes over the alphabet A
RECURSIVE Strings(_, _)
Strings(A, n) ==
  IF n = 0 THEN {<<>>}
  ELSE LET S == Strings(A, n - 1)
       IN S \cup {Append(s, c) : s \in {x \in S : Len(x) = n - 1}, c \in A}

MaxLitLen == 2
LitAlphabet == {"a", CR, LF, ")"}

\* the FETCH split of the end-to-end scenario: BODY[1] {11}, Hello World,
\* CRLF, the closing line and the tagged line
ScenarioFetch == <<Fetch(1, <<Lit(BODY1, HelloWorld)>>, CRLF), Line(T_OK_FETCH_done)>>

\* a complete line that starts with "*" and is of none of the three forms,
\* then the tagged line
StarOne == Star \o SP \o <<"1">>
UnknownStarStream == <<Line(StarOne), Line(T_OK_done)>>

FixedStreams ==
  { ScenarioFetch, UnknownStarStream,
    <<Line(Star \o SP \o <<"1", "2">> \o SP \o R_EXISTS),
      Line(Star \o SP \o R_OK \o SP \o <<"h", "i">>),
      Line(T_OK_done)>>,
    <<Line(TagA004 \o SP \o R_NO \o SP \o <<"n", "o">>)>>,
    <<Line(<<"z", "z">>)>>,
    <<Fetch(3, <<Lit(BODY1, <<"a", "b">>), Lit(BODY2, <<"c", CR, LF>>)>>, <<>>),
      Line(T_OK_done)>> }

\* one FETCH block with one literal of every content up to MaxLitLen bytes,
\* closed on the literal's last line or on a line of its own
LiteralStreams ==
  { <<Fetch(2, <<Lit(BODY1, c)>>, sep), Line(T_OK_done)>> :
      c \in Strings(LitAlphabet, MaxLitLen), sep \in {<<>>, CRLF} }

Streams == FixedStreams \cup LiteralStreams

(***************************************************************************)
(* The accumulator fed one stream in chunks                                *)
(***************************************************************************)
DigestInit ==
  /\ d_items \in Streams
  /\ d_rest = Render(d_items)
  /\ d_cutLit = 0
  /\ d_acc = IMAPResponse(TagA004)
  /\ d_out = "NeedMore"

\* the number of bytes handed to digest so far
DigestPos == Len(Render(d_items)) - Len(d_rest)

\* how many bytes of a literal lie before position cut when those after it
\* are not all of the literal's, 0 when cut is not between two of its bytes
CutInLiteral(items, cut) ==
  LET S == {rg \in LitRanges(items, 0) : rg[1] <= cut /\ cut < rg[2]}
  IN IF S = {} THEN 0 ELSE cut - (CHOOSE rg \in S : TRUE)[1] + 1

\* the caller hands the next k bytes of the stream to digest
Feed(k) ==
  \E r \in {digest(d_acc, SubSeq(d_rest, 1, k))} :
     /\ d_out = "NeedMore"
     /\ d_acc' = r.acc
     /\ d_out' = Outcome(r)
     /\ d_rest' = From(d_rest, k + 1)
     /\ d_cutLit' = IF CutInLiteral(d_items, DigestPos + k) # 0
                    THEN CutInLiteral(d_items, DigestPos + k) ELSE d_cutLit
     /\ UNCHANGED <<d_items, engineVars, handlerVars, tagVars, waitVars, prodVars, cbVars>>

\* the caller calls digest once more, with no bytes, on the accumulator that
\* reported Complete
FeedNothing ==
  \E r \in {digest(d_acc, <<>>)} :
     /\ d_out = "Complete"
     /\ d_acc' = r.acc
     /\ d_out' = CASE Outcome(r) = "Complete" -> "CompleteAgain"
                   [] Outcome(r) = "NeedMore" -> "NeedMoreAfterComplete"
                   [] Outcome(r) = "Error" -> "ErrorAfterComplete"
     /\ UNCHANGED <<d_items, d_rest, d_cutLit, engineVars, handlerVars, tagVars,
                    waitVars, prodVars, cbVars>>

DigestNext ==
  \/ \E k \in 1..Len(d_rest) : Feed(k)
  \/ FeedNothing

\* the whole stream in a single digest call
DigestWhole == digest(IMAPResponse(TagA004), Render(d_items))

InitDigest ==
  DigestInit /\ EngineInit /\ HandlerIdle /\ TagsIdle /\ WaitIdle /\ ProdIdle /\ CbIdle

SpecDigest == InitDigest /\ [][DigestNext]_vars

\* the feeding is over: digest reported Complete or Error, or no byte is left
DigestDone == d_out # "NeedMore" \/ d_rest = <<>>

\* C1: however a command's stream is cut into chunks, when the feeding is over
\* the outcome and the tagged, untagged-leading and untagged-trailing lists
\* and the literals are those of feeding the stream in a single digest call
C1_ChunkSplitInvariance ==
  DigestDone =>
    /\ d_out = Outcome(DigestWhole)
    /\ d_acc.tagged = DigestWhole.acc.tagged
    /\ d_acc.untagged = DigestWhole.acc.untagged
    /\ d_acc.untagged_trailing = DigestWhole.acc.untagged_trailing
    /\ d_acc.raw = DigestWhole.acc.raw

\* C5: when the command completes, every literal the stream announced with
\* {N} is stored under its message id and field as exactly its N bytes,
\* whatever bytes they are and however the chunks cut them
C5_LiteralByteCount ==
  d_out = "Complete" =>
    \A l \in LiteralsOf(d_items) :
      /\ <<l[1], l[2]>> \in DOMAIN d_acc.raw
      /\ d_acc.raw[<<l[1], l[2]>>] = l[3]

\* the scenario's FETCH, cut after "Hello ", completed with Hello World stored
C5_Witness ==
  /\ d_items = ScenarioFetch
  /\ d_cutLit = 6
  /\ d_out = "Complete"
  /\ d_acc.raw[<<1, BODY1>>] = HelloWorld

\* a line that starts with "*" and matches neither the FETCH start, nor the
\* untagged-leading, nor the untagged-trailing form
UnknownStarLine(text) ==
  /\ startsWith(text, Star)
  /\ ~UNTAGGED_FETCH_REG(text).ok
  /\ ~UNTAGGED_REG(text).ok
  /\ ~UNTAGGED_TRAILING_REG(text).ok

\* C23: a complete line that starts with "*" and is of none of the three
\* untagged forms is skipped: digest goes on, the error flag stays clear and
\* the command completes on its tagged line.
C23_UnknownUntaggedSkipped ==
  (/\ DigestDone
   /\ Len(d_items) = 2
   /\ d_items[1].k = "line" /\ UnknownStarLine(d_items[1].text)
   /\ d_items[2] = Line(T_OK_done))
    => /\ d_out = "Complete"
       /\ ~d_acc.error
       /\ d_acc.tagged = <<<<R_OK, <<"d", "o", "n", "e">>>>>>

\* C30: once digest has reported Complete, a further digest call with zero
\* bytes does not reopen the accumulator: tagged, untagged-leading,
\* untagged-trailing, the literals and the error flag are as they were.
C30_EmptyReadAfterComplete ==
  [][FeedNothing
       => /\ d_acc'.tagged = d_acc.tagged
          /\ d_acc'.untagged = d_acc.untagged
          /\ d_acc'.untagged_trailing = d_acc.untagged_trailing
          /\ d_acc'.raw = d_acc.raw
          /\ d_acc'.error = d_acc.error]_vars

\* the number of bytes of the first i items of the stream
PrefixLen(i) == Len(Render(SubSeq(d_items, 1, i)))

\* a line of the untagged-leading or of the untagged-trailing form
KnownUntagged(text) ==
  /\ startsWith(text, Star)
  /\ UNTAGGED_REG(text).ok \/ UNTAGGED_TRAILING_REG(text).ok

\* the bytes from position from + 1 to position to of the stream are complete
\* untagged lines and nothing else
OnlyUntaggedLines(from, to) ==
  \E i \in 0..Len(d_items) : \E j \in (i + 1)..Len(d_items) :
     /\ PrefixLen(i) = from /\ PrefixLen(j) = to
     /\ \A m \in (i + 1)..j :
          d_items[m].k = "line" /\ KnownUntagged(d_items[m].text)

\* position to is the last byte of a literal
AfterLiteral(to) ==
  \E rg \in LitRanges(d_items, 0) : rg[1] <= rg[2] /\ rg[2] = to

\* C31: a chunk that consists only of complete untagged lines, the tagged line
\* still to come, or a chunk that ends exactly after the last byte of a
\* literal, makes digest report NeedMore with the error flag clear, and the
\* command completes when the remaining bytes are supplied in a later call.
C31_InputExhaustion ==
  [][\A k \in 1..Len(d_rest) :
       (/\ d_rest' = From(d_rest, k + 1) /\ d_rest' # <<>>
        /\ ~d_acc.error
        /\ Outcome(DigestWhole) = "Complete"
        /\ \/ OnlyUntaggedLines(DigestPos, DigestPos + k)
           \/ AfterLiteral(DigestPos + k)
        /\ Feed(k))
         => /\ d_out' = "NeedMore"
            /\ ~d_acc'.error
            /\ Outcome(digest(d_acc', d_rest')) = "Complete"]_vars

\* a FETCH block whose one field is introduced by {0}: the header line, the
\* closing line, the tagged OK line
ZeroLiteralStream == <<Fetch(2, <<Lit(BODY1, <<>>)>>, <<>>), Line(T_OK_done)>>

\* C32: the response `* 2 FETCH (BODY[1] {0}`, `)`, `A004 OK done`, handed to
\* digest in one call, completes without error with the literal of message 2,
\* field BODY[1], present and empty; the closing line ends the FETCH block.
C32_ZeroLengthLiteral ==
  [][(/\ d_items = ZeroLiteralStream
      /\ DigestPos = 0 /\ d_rest' = <<>>
      /\ Feed(Len(d_rest)))
       => /\ d_out' = "Complete"
          /\ ~d_acc'.error
          /\ <<2, BODY1>> \in DOMAIN d_acc'.raw
          /\ d_acc'.raw[<<2, BODY1>>] = <<>>
          /\ d_acc'.tagged = <<<<R_OK, <<"d", "o", "n", "e">>>>>>]_vars

(***************************************************************************)
(* Claims about the engine                                                 *)
(***************************************************************************)

\* the bytes the head accumulator took when k bytes arrived
Consumed(k) ==
  SubSeq(sock_rd \o SubSeq(wire, 1, k), 1, Len(sock_rd) + k - Len(sock_rd'))

\* no line follows the line that carries the tag
EndsAtTagged(lines, tag) ==
  \A i \in 1..Len(lines) : startsWith(lines[i], tag \o SP) => i = Len(lines)

\* C2: every server line is consumed by the accumulator of the oldest pending
\* command whose tagged line has not been seen: the head accumulator takes no
\* line after its own tagged line, also when the responses of several commands
\* become readable in one readiness event.
C2_LineAttribution ==
  [][\A k \in DeliverSizes(Len(wire)) :
       (signals /\ _resp # <<>> /\ Deliver(k))
         => EndsAtTagged(LinesOf(Consumed(k)), _resp[1].acc.tag)]_vars

\* the command word of a written command line
CommandWord(line) ==
  LET rest == From(line, RunNot(line, 1, " ") + 2)
  IN SubSeq(rest, 1, RunLen(rest, 1, Upper))

\* the answer a server gives to a command it carries out
ProperKind(line) ==
  IF CommandWord(line) \in {<<"L", "O", "G", "I", "N">>, <<"N", "O", "O", "P">>}
  THEN "OK" ELSE "DATA"

\* at least two commands, none a LOGOUT, were all written before the server
\* answered any, the server carried out each, and every byte has arrived
Pipelined ==
  /\ sock_state = "Connected" /\ signals
  /\ issued >= 2 /\ Len(sock_wr) = issued /\ Len(answered) = issued
  /\ \A i \in 1..issued :
       /\ answered[i].written = issued
       /\ CommandWord(sock_wr[i]) # <<"L", "O", "G", "O", "U", "T">>
       /\ answered[i].kind = ProperKind(sock_wr[i])
  /\ wire = <<>> /\ sock_rd = <<>>

\* the commands for which ev fired, in the order it fired
FiredOrder(ev) ==
  LET s == SelectSeq(fired, LAMBDA f : f.ev = ev)
  IN [i \in 1..Len(s) |-> s[i].n]

\* C3: commands submitted before any response arrives have their callbacks
\* fired in the order of submission, and their payloads appended to the readable
\* queue in that order.
C3_PipeliningOrder ==
  Pipelined => /\ FiredOrder("callback") = [i \in 1..issued |-> i]
               /\ FiredOrder("ready_read") = [i \in 1..issued |-> i]

\* how often the success callback or the error notification of command c fired
Completions(c) ==
  Cardinality({i \in 1..Len(fired) :
                 fired[i].n = c /\ fired[i].ev \in {"callback", "error"}})

\* C4: every enqueued command has exactly one of its success callback and its
\* error notification fired, once: never more than once, and once as soon as
\* it has left the pending queue or the transport has closed.
C4_ExactlyOnce ==
  \A c \in 1..issued :
    /\ Completions(c) <= 1
    /\ (sock_state = "Unconnected" \/ \A i \in 1..Len(_resp) : _resp[i].n # c)
         => Completions(c) = 1

\* the keyword of a greeting line
GreetingKeyword(g) == SubSeq(g, 3, 2 + RunLen(g, 3, Upper))

\* the head command is a LOGIN and its handler reports success in this step
LoginSucceeds ==
  /\ _resp # <<>> /\ _resp[1].type = LOGIN /\ _resp' = Tail(_resp)
  /\ Len(fired') > Len(fired)
  /\ fired'[Len(fired')] = Fired("ready_read", _resp[1].n, 0, E_NOERR)

\* C6: the connection state starts Disconnected and changes only from
\* Disconnected to Connected on an OK greeting, from Disconnected to
\* Authenticated on a PREAUTH greeting, from Connected to Authenticated on a
\* successful LOGIN, and from any state to Disconnected on transport close.
C6_StateMachine ==
  [][_status' # _status =>
       \/ /\ _status = S_DISCONNECT /\ _status' = S_CONNECT
          /\ sock_state = "Connecting" /\ GreetingKeyword(greeting') = R_OK
       \/ /\ _status = S_DISCONNECT /\ _status' = S_AUTHENTICATE
          /\ sock_state = "Connecting" /\ GreetingKeyword(greeting') = R_PREAUTH
       \/ /\ _status = S_CONNECT /\ _status' = S_AUTHENTICATE /\ LoginSucceeds
       \/ /\ _status' = S_DISCONNECT /\ _on_disconnected]_vars

\* C7: when the transport reports connected and the greeting line is there, an
\* OK greeting makes the state Connected, fires the CONNECT callback once and
\* emits connected; a PREAUTH greeting makes the state Authenticated; a greeting
\* with any other keyword raises Unexpected, leaves the state Disconnected and
\* fires neither the CONNECT callback nor connected.
C7_GreetingHandling ==
  [][\A g \in Greetings : \A letter \in TagLetters :
       _on_connected(g, Len(g), letter) =>
         CASE GreetingKeyword(g) = R_OK ->
                /\ _status' = S_CONNECT
                /\ fired' = fired \o <<Fired("connect_cb", 0, 0, E_NOERR),
                                       Fired("connected", 0, 0, E_NOERR)>>
           [] GreetingKeyword(g) = R_PREAUTH -> _status' = S_AUTHENTICATE
           [] OTHER -> /\ _error' = E_UNEXPECTED /\ _status' = S_DISCONNECT
                       /\ fired' = fired]_vars

\* C8: a command called while the state is Disconnected fails with
\* NotConnected, writes no bytes, allocates no tag, and leaves the pending queue
\* and the callback map as they were.
C8_DisconnectedCommands ==
  [][(/\ _status = S_DISCONNECT
      /\ (login \/ logout \/ list \/ select \/ noop \/ search \/ fetch(1, TEXT, 1)))
       => /\ _error' = E_NOTCONNECTED
          /\ sock_wr' = sock_wr /\ _tags' = _tags
          /\ _resp' = _resp /\ _resp_callback' = _resp_callback]_vars

C8_Witness ==
  /\ _status = S_DISCONNECT /\ _error = E_NOTCONNECTED
  /\ _resp # <<>> /\ DOMAIN _resp_callback # {}

\* the head accumulator, reading command lines, comes to a complete line that
\* begins with neither "*" nor its tag
GarbageRead(acc, rd) ==
  LET lines == LinesOf((IF endsWith(acc.buffer, CRLF) THEN <<>> ELSE acc.buffer)
                       \o rd)
  IN /\ ~acc.raw_mode
     /\ \E i \in 1..Len(lines) :
          /\ endsWith(lines[i], CRLF)
          /\ ~startsWith(lines[i], Star) /\ ~startsWith(lines[i], acc.tag)
          /\ \A j \in 1..(i - 1) :
               /\ endsWith(lines[j], CRLF) /\ startsWith(lines[j], Star)
               /\ \A n \in 1..Len(lines[j]) : lines[j][n] # "{"

\* C9: when the head accumulator reads a complete line that begins with neither
\* "*" nor the awaited tag, the head command fails with Parse, exactly the head
\* entry leaves the pending queue, the entries behind it stay in their order,
\* and the connection state is unchanged.
C9_ParseError ==
  [][\A k \in DeliverSizes(Len(wire)) :
       (/\ signals /\ _resp # <<>> /\ Deliver(k)
        /\ GarbageRead(_resp[1].acc, sock_rd \o SubSeq(wire, 1, k)))
         => /\ _error' = E_PARSE
            /\ fired' = Append(fired, Fired("error", _resp[1].n, 0, E_PARSE))
            /\ _resp' = Tail(_resp)
            /\ _status' = _status]_vars

C9_Witness ==
  /\ Len(answered) = 1 /\ answered[1].kind = "GARBAGE" /\ wire = <<>>
  /\ _error = E_PARSE
  /\ fired # <<>> /\ fired[Len(fired)] = Fired("error", 1, 0, E_PARSE)
  /\ Len(_resp) = 1 /\ _resp[1].n = 2

\* the result type the command kind is mapped to; a FETCH has a payload whose
\* type is not looked at
ResultTypes(type) ==
  CASE type = LOGIN -> {"Login"}
    [] type = LIST -> {"List"}
    [] type = SELECT -> {"Select"}
    [] type = NOOP -> {"Noop"}
    [] type = SEARCH -> {"Search"}
    [] OTHER -> {"Login", "List", "Select", "Noop", "Search", "int"}

\* what the log holds of submissions, ready_read signals, errors and reads
SessionLog ==
  LET s == SelectSeq(fired, LAMBDA f : f.ev \in {"request", "ready_read", "error", "read"})
  IN [j \in 1..Len(s) |-> <<s[j].ev, s[j].n>>]

\* the log of k - 1 rounds of submitting a command, seeing its ready_read and
\* reading its payload
Rounds(k) ==
  [j \in 1..(3 * (k - 1)) |->
     <<CASE (j - 1) % 3 = 0 -> "request" [] (j - 1) % 3 = 1 -> "ready_read"
         [] OTHER -> "read",
       (j - 1) \div 3 + 1>>]

\* the session of test_interface in its k-th round (k = issued): every
\* command so far is no LOGOUT and was submitted after the payload of the one
\* before had been read, the server answered each by carrying it out, and no
\* error is recorded
OneByOne ==
  /\ sock_state = "Connected" /\ signals
  /\ issued >= 1 /\ Len(sock_wr) = issued /\ Len(answered) = issued
  /\ \A i \in 1..issued :
       /\ CommandWord(sock_wr[i]) # <<"L", "O", "G", "O", "U", "T">>
       /\ answered[i].kind = ProperKind(sock_wr[i])
  /\ wait_for_ready_read

C14_ReadFIFO ==
  [][read =>
       IF _queue = <<>>
       THEN UNCHANGED <<fired, _queue, _resp, _status, _error, _estr>>
       ELSE /\ Len(FiredOrder("read")) < Len(FiredOrder("ready_read"))
            /\ fired' = Append(fired,
                 Fired("read", FiredOrder("ready_read")[Len(FiredOrder("read")) + 1],
                       0, E_NOERR))
            /\ _queue' = Tail(_queue)]_vars

\* two payloads were in the readable queue and read returned the older one
C14_Witness ==
  /\ FiredOrder("ready_read") = <<1, 2>> /\ FiredOrder("read") = <<1>>
  /\ fired[Len(fired)].ev = "read"
  /\ Len(_queue) = 1 /\ _queue[1].n = 2

\* how many entries of the log are of the kind
CountOf(log, ev) == Cardinality({i \in 1..Len(log) : log[i].ev = ev})

\* C15: the number of ready_read signals emitted equals the number of payloads
\* pushed onto the readable queue (those still queued and those read); a step
\* of _on_ready_read in which the head, not a LOGOUT, completes without an
\* error pushes its payload and emits one ready_read; every other step of
\* _on_ready_read, among them a completed LOGOUT, a handler error and a parse
\* error, pushes nothing and emits no ready_read.
C15_ReadyReadAccounting ==
  [][/\ CountOf(fired', "ready_read") = Len(_queue') + CountOf(fired', "read")
     /\ \A k \in DeliverSizes(Len(wire)) :
          (signals /\ _resp # <<>> /\ Deliver(k))
            => LET new == SubSeq(fired', Len(fired) + 1, Len(fired'))
               IN IF /\ _resp' = Tail(_resp) /\ CountOf(new, "error") = 0
                     /\ _resp[1].type # LOGOUT
                  THEN /\ CountOf(new, "ready_read") = 1
                       /\ Len(_queue') = Len(_queue) + 1
                       /\ _queue'[Len(_queue')].n = _resp[1].n
                       /\ SubSeq(_queue', 1, Len(_queue)) = _queue
                  ELSE CountOf(new, "ready_read") = 0 /\ _queue' = _queue]_vars

\* one command completed with a payload and another one with an error
C15_Witness ==
  /\ CountOf(fired, "ready_read") = 1 /\ CountOf(fired, "error") = 1
  /\ Len(_queue) = 1 /\ _resp = <<>>

\* C16: when the transport closes while commands are pending, every entry
\* leaves the pending queue and each pending command is notified exactly once
\* with an Internal error; none is left waiting.
C16_CancelOnClose ==
  [][(_resp # <<>> /\ _on_disconnected)
       => /\ _resp' = <<>>
          /\ LET new == SubSeq(fired', Len(fired) + 1, Len(fired'))
             IN \A i \in 1..Len(_resp) :
                  Cardinality({j \in 1..Len(new) :
                                 new[j] = Fired("error", _resp[i].n, 0, E_INTERNAL)})
                    = 1]_vars

\* C17: when the transport signals an error and the pending queue is not
\* empty, the head command's error notification fires with kind Internal; only
\* when the pending queue is empty is the global error slot set with no
\* command notified.
C17_ErrorAttribution ==
  [][_on_error_occurred
       => IF _resp # <<>>
          THEN fired' = Append(fired, Fired("error", _resp[1].n, 0, E_INTERNAL))
          ELSE _error' = E_INTERNAL /\ fired' = fired]_vars

\* C18: when the bytes of a submitted command cannot be written, the entry
\* appended for it is taken off the tail of the pending queue again, the
\* entries pending before stay in their order, so that no accumulator of the
\* failed command remains, and the command fails with Internal.
C18_WriteRollback ==
  [][(/\ (login \/ logout \/ list \/ select \/ noop \/ search \/ fetch(1, TEXT, 1))
      /\ issued' = issued + 1 /\ sock_wr' = sock_wr)
       => _resp' = _resp /\ _error' = E_INTERNAL]_vars

\* C21: connect_to_host called while the state is Connected or Authenticated
\* fails with Duplicate, starts no connection and registers no CONNECT
\* callback; disconnect_from_host called while the state is Disconnected fails
\* with Duplicate, starts no close and registers no DISCONNECT callback; in
\* both cases the state and the pending queue are as they were.
C21_DuplicateOperations ==
  [][/\ (is_connected /\ connect_to_host)
          => /\ _error' = E_DUPLICATE
             /\ sock_state' = sock_state /\ connects' = connects
             /\ _resp_callback' = _resp_callback
             /\ _status' = _status /\ _resp' = _resp
     /\ (_status = S_DISCONNECT /\ disconnect_from_host)
          => /\ _error' = E_DUPLICATE
             /\ sock_state' = sock_state
             /\ _resp_callback' = _resp_callback
             /\ _status' = _status /\ _resp' = _resp]_vars

\* connect_to_host was refused on an open connection with a command pending
C21_Witness ==
  /\ is_connected /\ _error = E_DUPLICATE
  /\ _estr = Msg("Connection has established")
  /\ CONNECT_TAG \notin DOMAIN _resp_callback /\ _resp # <<>>

\* C35: whenever the connection state is Disconnected the pending-command
\* queue is empty, so that after a reconnect the first command submitted is
\* the head of the queue and the first response lines are attributed to it.
C35_NoStaleEntries == _status = S_DISCONNECT => _resp = <<>>

\* C36: whenever the transport connection is open, also with the state still
\* Disconnected after a greeting that was rejected or not read in time,
\* disconnect_from_host() initiates a close; it is refused with Duplicate only
\* when no transport connection exists.
C36_TransportClosable ==
  [][(sock_state = "Connected" /\ disconnect_from_host)
       => /\ sock_state' = "Closing"
          /\ DISCONNECT_TAG \in DOMAIN _resp_callback'
          /\ _error' = _error /\ _estr' = _estr]_vars

\* the bytes hold a complete line that begins with the tag
HoldsTaggedLine(bytes, tag) ==
  \E i \in 1..Len(LinesOf(bytes)) :
    startsWith(LinesOf(bytes)[i], tag \o SP) /\ endsWith(LinesOf(bytes)[i], CRLF)

\* the events by which command n was completed: its callback, its ready_read
\* or its error
CompletedIn(log, n) ==
  Len(SelectSeq(log, LAMBDA e :
                       e.n = n /\ e.ev \in {"callback", "ready_read", "error"}))

\* C28: when at a readiness event the available bytes hold the complete
\* responses of the first two pending commands, both are completed during the
\* handling of that one event: both leave the pending queue and both have
\* their completion fired.
C28_PipelinedProgress ==
  [][\A k \in DeliverSizes(Len(wire)) :
       (/\ signals /\ Len(_resp) >= 2
        /\ HoldsTaggedLine(sock_rd \o SubSeq(wire, 1, k), _resp[1].acc.tag)
        /\ HoldsTaggedLine(sock_rd \o SubSeq(wire, 1, k), _resp[2].acc.tag)
        /\ Deliver(k))
         => /\ Len(_resp') <= Len(_resp) - 2
            /\ CompletedIn(fired', _resp[1].n) > CompletedIn(fired, _resp[1].n)
            /\ CompletedIn(fired', _resp[2].n) > CompletedIn(fired, _resp[2].n)]_vars

\* what the head's digest reports on the bytes there are when k bytes arrive
HeadOutcome(k) ==
  Outcome(digest_sock(_resp[1].acc, sock_rd \o SubSeq(wire, 1, k)))

\* the commands of the pending queue, in their order
PendingOrder(resp) == [i \in 1..Len(resp) |-> resp[i].n]

\* C29: a readiness event on which the head accumulator reports NeedMore
\* leaves the pending queue (length and order), the connection state, the
\* readable queue, the callback map and the error slot as they were and fires
\* no callback and no signal; an entry leaves the pending queue only when its
\* accumulator reports Complete or Error.
C29_NeedMoreNoOp ==
  [][/\ \A k \in DeliverSizes(Len(wire)) :
          (/\ signals /\ _resp # <<>>
           /\ wire # <<>> /\ wire' = From(wire, k + 1)
           /\ HeadOutcome(k) = "NeedMore"
           /\ Deliver(k))
            => /\ PendingOrder(_resp') = PendingOrder(_resp)
               /\ _status' = _status /\ sock_state' = sock_state
               /\ _queue' = _queue /\ _resp_callback' = _resp_callback
               /\ _error' = _error /\ _estr' = _estr
               /\ fired' = fired
     /\ PendingOrder(_resp') # PendingOrder(_resp) /\ Len(_resp') <= Len(_resp)
          => \E k \in DeliverSizes(Len(wire)) :
               /\ signals /\ _resp # <<>>
               /\ HeadOutcome(k) \in {"Complete", "Error"}
               /\ PendingOrder(_resp') = Tail(PendingOrder(_resp))]_vars

\* the head has taken the first bytes of a line and waits for the rest
C29_Witness ==
  /\ signals /\ _resp # <<>> /\ wire # <<>>
  /\ _resp[1].acc.buffer # <<>> /\ ~endsWith(_resp[1].acc.buffer, CRLF)
  /\ ~_resp[1].acc.error

(***************************************************************************)
(* The response handlers applied to completed accumulators                 *)
(***************************************************************************)

TagA000 == <<"A", "0", "0", "0">>
BadCredentials ==
  <<"b", "a", "d", " ", "c", "r", "e", "d", "e", "n", "t", "i", "a", "l", "s">>

\* the keywords and texts of the tagged lines handed to the handlers
HandlerKeywords == {R_OK, R_NO, R_BAD, R_BYE, R_PREAUTH, <<"H", "E", "L", "L", "O">>}
HandlerTexts == {<<"x">>, BadCredentials}

TaggedLine(tag, kw, text) == tag \o SP \o kw \o SP \o text \o CRLF

\* scenario 3: the answer to `A001 LIST "" *`
TagA001 == <<"A", "0", "0", "1">>
HasNoChildren ==
  <<"H", "a", "s", "N", "o", "C", "h", "i", "l", "d", "r", "e", "n">>
HasChildren ==
  <<"H", "a", "s", "C", "h", "i", "l", "d", "r", "e", "n">>
INBOX == <<"I", "N", "B", "O", "X">>
Sent == <<"S", "e", "n", "t">>
ListCompleted ==
  <<"L", "I", "S", "T", " ", "c", "o", "m", "p", "l", "e", "t", "e", "d">>

\* * LIST (\attr) "/" "name" CRLF
ListLine(attr, name) ==
  Star \o SP \o R_LIST \o SP \o <<"(", "\\">> \o attr
  \o <<")", " ", "\"", "/", "\"", " ", "\"">> \o name \o <<"\"">> \o CRLF

Scenario3Lists == ListLine(HasNoChildren, INBOX) \o ListLine(HasChildren, Sent)

\* the bytes as the scenario writes them, the tagged line led by a space, and
\* the bytes with the tagged line beginning with the tag
Scenario3AsWritten ==
  Scenario3Lists \o SP \o TaggedLine(TagA001, R_OK, ListCompleted)
Scenario3 == Scenario3Lists \o TaggedLine(TagA001, R_OK, ListCompleted)

\* The answer to a SELECT, described by what it carries: the text after `* `
\* of its EXISTS and RECENT lines and inside [UNSEEN ] and [UIDVALIDITY ]
\* (<<>>: the line is absent), the FLAGS and PERMANENTFLAGS lists (<<>>: the
\* line is absent, <<l>>: it carries the list l), and the bracketed code of
\* the tagged OK line (<<>>: none)
NumberTexts == {<<>>, <<"3">>, <<"z">>}
FlagLists == {<<>>, <<<<>>>>, <<<<<<"S">>, <<"*">>>>>>}
READ_WRITE == <<"R", "E", "A", "D", "-", "W", "R", "I", "T", "E">>

SelectAnswers ==
  [exists : NumberTexts, recent : {<<>>, <<"1">>}, unseen : NumberTexts,
   uidvalidity : {<<>>, <<"7">>}, flags : FlagLists, permanent_flags : FlagLists,
   permission : {<<>>, READ_WRITE}]

\* (\a \b): each flag with its backslash, separated by one space
RECURSIVE RenderFlags(_)
RenderFlags(l) ==
  IF l = <<>> THEN <<>>
  ELSE <<"\\">> \o Head(l) \o (IF Tail(l) = <<>> THEN <<>> ELSE SP \o RenderFlags(Tail(l)))

OkCode(word, text) ==
  Star \o SP \o R_OK \o SP \o <<"[">> \o word \o SP \o text \o <<"]", " ", "x">> \o CRLF

RenderSelect(a) ==
  (IF a.flags = <<>> THEN <<>>
   ELSE Star \o SP \o R_FLAGS \o SP \o <<"(">> \o RenderFlags(a.flags[1]) \o <<")">> \o CRLF)
  \o (IF a.exists = <<>> THEN <<>>
      ELSE Star \o SP \o a.exists \o SP \o R_EXISTS \o CRLF)
  \o (IF a.recent = <<>> THEN <<>>
      ELSE Star \o SP \o a.recent \o SP \o R_RECENT \o CRLF)
  \o (IF a.unseen = <<>> THEN <<>>
      ELSE OkCode(<<"U", "N", "S", "E", "E", "N">>, a.unseen))
  \o (IF a.permanent_flags = <<>> THEN <<>>
      ELSE OkCode(<<"P", "E", "R", "M", "A", "N", "E", "N", "T", "F", "L", "A", "G", "S">>,
                  <<"(">> \o RenderFlags(a.permanent_flags[1]) \o <<")">>))
  \o (IF a.uidvalidity = <<>> THEN <<>>
      ELSE OkCode(<<"U", "I", "D", "V", "A", "L", "I", "D", "I", "T", "Y">>,
                  a.uidvalidity))
  \o TagA000 \o SP \o R_OK \o SP
  \o (IF a.permission = <<>> THEN <<>> ELSE <<"[">> \o a.permission \o <<"]", " ">>)
  \o <<"x">> \o CRLF

SelectStreams == {RenderSelect(a) : a \in SelectAnswers}

\* the number a text stands for, 0 when it is absent or not a number
NumberOf(text) ==
  IF text # <<>> /\ \A i \in 1..Len(text) : text[i] \in Digit
  THEN DigitsToNat(text) ELSE 0

\* the Select result the answer stands for
SelectOf(a) ==
  [exists |-> NumberOf(a.exists), recent |-> NumberOf(a.recent),
   unseen |-> NumberOf(a.unseen), uidvalidity |-> NumberOf(a.uidvalidity),
   flags |-> IF a.flags = <<>> THEN <<>> ELSE a.flags[1],
   permanent_flags |-> IF a.permanent_flags = <<>> THEN <<>>
                       ELSE a.permanent_flags[1],
   permission |-> a.permission]

\* The answer to a LIST, described by its untagged lines: a mailbox with its
\* attributes, each written with its backslash, under the parent "/"; a line
\* of another code; a LIST line whose data is not of the form. <attrs> stands
\* for at least one attribute: a mailbox line with the empty list `()` is not
\* of the form either
ListEntries ==
  {[k |-> "box", attrs |-> l, name |-> n] :
     l \in {<<>>, <<<<"N">>>>, <<<<"N">>, <<"M">>>>}, n \in {<<"a">>, <<"b">>}}
  \cup {[k |-> "other"], [k |-> "malformed"]}

ListAnswers ==
  {<<>>} \cup {<<e>> : e \in ListEntries}
  \cup {<<e, f>> : e \in ListEntries, f \in ListEntries}

RenderEntry(e) ==
  CASE e.k = "box" ->
         Star \o SP \o R_LIST \o SP \o <<"(">> \o RenderFlags(e.attrs)
         \o <<")", " ", "\"", "/", "\"", " ", "\"">> \o e.name \o <<"\"">> \o CRLF
    [] e.k = "other" -> Star \o SP \o R_LSUB \o SP \o <<"x">> \o CRLF
    [] OTHER -> Star \o SP \o R_LIST \o SP \o <<"x">> \o CRLF

RECURSIVE RenderEntries(_)
RenderEntries(es) ==
  IF es = <<>> THEN <<>> ELSE RenderEntry(Head(es)) \o RenderEntries(Tail(es))

RenderList(es) == RenderEntries(es) \o TaggedLine(TagA000, R_OK, <<"x">>)

ListStreams == {RenderList(es) : es \in ListAnswers}

\* the List result the answer stands for: its mailboxes in their order
ListOf(es) ==
  LET boxes == SelectSeq(es, LAMBDA e : e.k = "box" /\ e.attrs # <<>>)
  IN [i \in 1..Len(boxes) |->
        [parent |-> <<"/">>, name |-> boxes[i].name, attrs |-> boxes[i].attrs]]

\* The answer to a SEARCH, described by its untagged SEARCH lines, each a list
\* of tokens: message ids and a word that is no number
SearchTokens == {<<"1">>, <<"3">>, <<"1", "5">>, <<"x">>}

SearchLines ==
  {<<>>} \cup {<<t>> : t \in SearchTokens}
  \cup {<<t, u>> : t \in SearchTokens, u \in SearchTokens}
  \cup {<<<<"1">>, <<"3">>, <<"5">>>>, <<<<"1">>, <<"x">>, <<"3">>>>}

SearchAnswers ==
  {<<>>} \cup {<<l>> : l \in SearchLines}
  \cup {<<l, m>> : l \in {<<>>, <<<<"1">>>>}, m \in {<<>>, <<<<"3">>>>}}

RECURSIVE RenderTokens(_)
RenderTokens(ts) ==
  IF ts = <<>> THEN <<>> ELSE SP \o Head(ts) \o RenderTokens(Tail(ts))

RECURSIVE RenderSearchLines(_)
RenderSearchLines(ls) ==
  IF ls = <<>> THEN <<>>
  ELSE Star \o SP \o R_SEARCH \o RenderTokens(Head(ls)) \o CRLF
       \o RenderSearchLines(Tail(ls))

RenderSearch(ls) == RenderSearchLines(ls) \o TaggedLine(TagA000, R_OK, <<"x">>)

SearchStreams == {RenderSearch(ls) : ls \in SearchAnswers}

\* the ids a SEARCH line stands for: its numbers in their order
SearchOf(tokens) ==
  LET ids == SelectSeq(tokens, LAMBDA t : \A i \in 1..Len(t) : t[i] \in Digit)
  IN [i \in 1..Len(ids) |-> DigitsToNat(ids[i])]

\* the tag of the command a stream answers
HandlerTagOf(bytes) ==
  IF bytes \in {Scenario3AsWritten, Scenario3} THEN TagA001 ELSE TagA000

\* responses of one tagged line, responses with data, and what the socket may
\* hold when it runs dry: no tagged line yet, or two of them; and scenario 3
HandlerStreams ==
  {TaggedLine(TagA000, kw, text) : kw \in HandlerKeywords, text \in HandlerTexts}
  \cup {ServerData(w) \o TaggedLine(TagA000, R_OK, <<"x">>) :
          w \in {R_LIST, R_SEARCH, R_FETCH, <<"N", "O", "O", "P">>,
                 <<"L", "O", "G", "O", "U", "T">>}}
  \cup {ServerData(R_SEARCH),
        TaggedLine(TagA000, R_OK, <<"x">>) \o TaggedLine(TagA000, R_NO, <<"x">>)}
  \cup {Scenario3AsWritten, Scenario3}
  \cup SelectStreams
  \cup ListStreams
  \cup SearchStreams

\* the lines of a stream that carry the tag
TaggedLinesOf(bytes, tag) ==
  SelectSeq(LinesOf(bytes), LAMBDA l : startsWith(l, tag \o SP))

\* the keyword and the text of a tagged line
KeywordOf(line, tag) == SubSeq(line, Len(tag) + 2, Len(tag) + 1 + RunNot(line, Len(tag) + 2, " "))
TextOf(line, tag) ==
  SubSeq(line, Len(tag) + 3 + Len(KeywordOf(line, tag)), Len(line) - 2)

HandlerInit ==
  /\ h_in \in HandlerStreams
  /\ h_parser \in {"device", "socket"}
  /\ \E r \in {IF h_parser = "device"
               THEN digest(IMAPResponse(HandlerTagOf(h_in)), h_in)
               ELSE digest_sock(IMAPResponse(HandlerTagOf(h_in)), h_in)} :
       h_acc = r.acc
  /\ h_cmd = "none" /\ h_out = HNone

\* the handler of a command runs on the accumulator
Handle(cmd) ==
  /\ h_cmd = "none"
  /\ h_cmd' = cmd
  /\ h_out' = RESPONSE_HANDLER(cmd, h_acc)
  /\ UNCHANGED <<h_in, h_parser, h_acc, engineVars, digestVars, tagVars, waitVars,
                 prodVars, cbVars>>

HandlerNext == \E cmd \in Command : Handle(cmd)

InitHandler ==
  HandlerInit /\ EngineInit /\ DigestIdle /\ TagsIdle /\ WaitIdle /\ ProdIdle /\ CbIdle

SpecHandler == InitHandler /\ [][HandlerNext]_vars

\* C10: the Login handler yields Unexpected unless the response has exactly one
\* tagged line; with one it yields success(Login{}) for OK, error Login with the
\* server's text for NO, error BadCommand for BAD, and error Unexpected for
\* every other keyword.
C10_LoginTriage ==
  h_cmd = LOGIN =>
    LET lines == TaggedLinesOf(h_in, h_acc.tag)
        kw == KeywordOf(lines[1], h_acc.tag)
    IN IF Len(lines) # 1 THEN h_out.kind = "error" /\ h_out.err = E_UNEXPECTED
       ELSE CASE kw = R_OK -> h_out = HSuccess("Login", <<>>)
              [] kw = R_NO -> /\ h_out.kind = "error" /\ h_out.err = E_LOGIN
                              /\ h_out.estr = TextOf(lines[1], h_acc.tag)
              [] kw = R_BAD -> h_out.kind = "error" /\ h_out.err = E_BADCOMMAND
              [] OTHER -> h_out.kind = "error" /\ h_out.err = E_UNEXPECTED

\* C11: for LIST, SELECT, SEARCH and FETCH a single tagged NO yields error
\* Reference and a single tagged BAD yields error BadCommand; for NOOP and
\* LOGOUT a single tagged line whose keyword is not OK yields error
\* BadCommand; for all six an accumulator whose number of tagged lines is not
\* one yields error Unexpected; an error comes without a payload.
C11_ErrorKinds ==
  h_cmd \in {LIST, SELECT, SEARCH, FETCH, NOOP, LOGOUT} =>
    LET lines == TaggedLinesOf(h_in, h_acc.tag)
        kw == KeywordOf(lines[1], h_acc.tag)
    IN IF Len(h_acc.tagged) # 1
       THEN h_out.kind = "error" /\ h_out.err = E_UNEXPECTED
       ELSE /\ (h_cmd \in {LIST, SELECT, SEARCH, FETCH} /\ kw = R_NO)
                 => h_out.kind = "error" /\ h_out.err = E_REFERENCE
            /\ (h_cmd \in {LIST, SELECT, SEARCH, FETCH} /\ kw = R_BAD)
                 => h_out.kind = "error" /\ h_out.err = E_BADCOMMAND
            /\ (h_cmd \in {NOOP, LOGOUT} /\ kw # R_OK)
                 => h_out.kind = "error" /\ h_out.err = E_BADCOMMAND

\* the result of scenario 3
Scenario3Result ==
  <<[parent |-> <<"/">>, name |-> INBOX, attrs |-> <<HasNoChildren>>],
    [parent |-> <<"/">>, name |-> Sent, attrs |-> <<HasChildren>>]>>

\* C13 as stated: on the bytes of scenario 3 as written there, the tagged line
\* led by a space, the LIST command completes with success and its result is
\* INBOX with HasNoChildren and Sent with HasChildren, both under "/".
C13_ListScenarioAsWritten ==
  (h_in = Scenario3AsWritten /\ h_cmd = LIST)
    => ~h_acc.error /\ h_out = HSuccess("List", Scenario3Result)

\* C13, amended: on the two `* LIST` lines followed by the line
\* `A001 OK LIST completed`, which begins with the tag, the accumulator
\* completes without error and the LIST handler yields success with the result
\* INBOX with HasNoChildren and Sent with HasChildren, both under "/".
C13_ListScenario ==
  (h_in = Scenario3 /\ h_cmd = LIST)
    => /\ ~h_acc.error /\ Len(h_acc.tagged) = 1 /\ Len(h_acc.untagged) = 2
       /\ h_out = HSuccess("List", Scenario3Result)

C13_Witness ==
  /\ h_in = Scenario3 /\ h_cmd = LIST /\ h_parser = "device"
  /\ h_out.kind = "success" /\ Len(h_out.value) = 2

\* C22: when a FETCH completes with one tagged OK line, the success value
\* handed on (to the callback and to the readable queue) is the accumulator's
\* map of literals, message id and field to the raw bytes.
C22_FetchPayload ==
  (h_cmd = FETCH /\ Len(h_acc.tagged) = 1 /\ h_acc.tagged[1][1] = R_OK)
    => /\ h_out.kind = "success"
       /\ h_out.type = "literals"
       /\ h_out.value = h_acc.raw

\* C37: given a completed accumulator with exactly one tagged OK line the
\* Select handler succeeds; exists and recent come from the EXISTS and RECENT
\* lines, unseen and uidvalidity from [UNSEEN n] and [UIDVALIDITY n], flags
\* from the FLAGS line, permanent_flags from [PERMANENTFLAGS (...)],
\* permission from the bracketed code of the tagged line; a field that is
\* absent or whose number does not parse keeps its default and never turns
\* the result into an error.
C37_SelectResult ==
  (h_cmd = SELECT /\ Len(h_acc.tagged) = 1 /\ h_acc.tagged[1][1] = R_OK)
    => /\ h_out.kind = "success" /\ h_out.type = "Select"
       /\ \A a \in SelectAnswers :
            h_in = RenderSelect(a) => h_out.value = <<SelectOf(a)>>

\* C39: given exactly one tagged OK line, the Search handler succeeds only if
\* the accumulator holds exactly one untagged-leading entry and otherwise
\* yields error Unexpected; the result is the sequence of the numeric tokens of
\* that entry's data in their order, non-numeric tokens skipped: `* SEARCH 1 3
\* 5` yields [1,3,5] and a `* SEARCH` line without ids yields the empty list.
C39_SearchResult ==
  (h_cmd = SEARCH /\ Len(h_acc.tagged) = 1 /\ h_acc.tagged[1][1] = R_OK) =>
    /\ IF Len(h_acc.untagged) = 1
       THEN h_out.kind = "success" /\ h_out.type = "Search"
       ELSE h_out.kind = "error" /\ h_out.err = E_UNEXPECTED
    /\ \A ls \in SearchAnswers :
         h_in = RenderSearch(ls) =>
           IF Len(ls) = 1 THEN h_out = HSuccess("Search", SearchOf(ls[1]))
           ELSE h_out.kind = "error" /\ h_out.err = E_UNEXPECTED

C39_Witness ==
  /\ h_cmd = SEARCH /\ h_parser = "device"
  /\ h_in = RenderSearch(<<<<<<"1">>, <<"x">>, <<"3">>>>>>)
  /\ h_out = HSuccess("Search", <<1, 3>>)

C39_NoIds ==
  /\ h_cmd = SEARCH /\ h_in = RenderSearch(<<<<>>>>)
  /\ h_out = HSuccess("Search", <<>>)

\* C38: given exactly one tagged OK line the List handler returns one item per
\* untagged-leading entry whose code is LIST and whose data has the form
\* (<attrs>) "<parent>" "<name>", in the order the lines were received, each
\* attribute without its leading backslash; entries with another code or of
\* another form are skipped and never make the command fail.
C38_ListResult ==
  (h_cmd = LIST /\ Len(h_acc.tagged) = 1 /\ h_acc.tagged[1][1] = R_OK)
    => /\ h_out.kind = "success" /\ h_out.type = "List"
       /\ \A es \in ListAnswers :
            h_in = RenderList(es) => h_out.value = ListOf(es)

\* a line of another code, then a mailbox with two attributes: the List
\* handler has returned the one mailbox
C38_Witness ==
  /\ h_cmd = LIST /\ h_parser = "socket"
  /\ h_in = RenderList(<<[k |-> "other"],
                         [k |-> "box", attrs |-> <<<<"N">>, <<"M">>>>, name |-> <<"b">>]>>)
  /\ h_out = HSuccess("List", <<[parent |-> <<"/">>, name |-> <<"b">>,
                                 attrs |-> <<<<"N">>, <<"M">>>>]>>)

\* the complete lines of a stream
CompleteLines(bytes) ==
  {LinesOf(bytes)[i] : i \in {n \in 1..Len(LinesOf(bytes)) :
                                endsWith(LinesOf(bytes)[n], CRLF)}}

\* what the digest call that produced h_acc returned
HandlerDigest ==
  IF h_parser = "device" THEN digest(IMAPResponse(HandlerTagOf(h_in)), h_in)
  ELSE digest_sock(IMAPResponse(HandlerTagOf(h_in)), h_in)

\* C27: digest reports Complete only in a call in which it parsed a complete
\* line that begins with the awaited tag (for the CONNECT tag: the first
\* complete "*" line), never because the input is exhausted; when it reports
\* Complete tagged has exactly one entry for a command, and for CONNECT tagged
\* is empty and untagged-leading has exactly one entry.
C27_CompletionCondition ==
  h_cmd = "none" =>
    \A r \in {HandlerDigest} :
      r.ret =>
        IF r.acc.tag = CONNECT_TAG
        THEN /\ \E l \in CompleteLines(h_in) : startsWith(l, Star)
             /\ r.acc.tagged = <<>> /\ Len(r.acc.untagged) = 1
        ELSE /\ \E l \in CompleteLines(h_in) : startsWith(l, r.acc.tag)
             /\ Len(r.acc.tagged) = 1

(***************************************************************************)
(* A TagGenerator called again and again                                   *)
(***************************************************************************)

\* the letters the generators are constructed with, and how often generate is
\* called: once more than there are indexes
TagPrefixes == {"A", "Z"}
MaxCalls == 1001

TagsInit == t_tags \in {[tag |-> L, idx |-> 0] : L \in TagPrefixes} /\ t_out = <<>>

\* one call of generate
Generate ==
  /\ Len(t_out) < MaxCalls
  /\ \E g \in {generate(t_tags)} : t_tags' = g.tags /\ t_out' = Append(t_out, g.tag)
  /\ UNCHANGED <<engineVars, digestVars, handlerVars, waitVars, prodVars, cbVars>>

InitTags ==
  TagsInit /\ EngineInit /\ DigestIdle /\ HandlerIdle /\ WaitIdle /\ ProdIdle /\ CbIdle

SpecTags == InitTags /\ [][Generate]_vars

\* the letter followed by the three decimal digits of n, for n below 1000
Padded(L, n) ==
  <<L, DigitChar(n \div 100), DigitChar((n \div 10) % 10), DigitChar(n % 10)>>

\* the k-th call returned the letter followed by (k-1) mod 1000 in three digits
KthTag == \A k \in 1..Len(t_out) : t_out[k] = Padded(t_tags.tag, (k - 1) % 1000)

\* C19 as stated: the k-th call returns L followed by the zero-padded 3-digit
\* decimal of (k-1) mod 1000, and the tags of N successive calls are N
\* distinct values, for every N: the tag of the last call differs from the tag
\* of every call before it.
C19_TagSequenceDistinct ==
  /\ KthTag
  /\ \A i \in 1..(Len(t_out) - 1) : t_out[i] # t_out[Len(t_out)]

\* C19, amended: the k-th call returns L followed by the zero-padded 3-digit
\* decimal of (k-1) mod 1000, the call after the one returning L999 returns
\* L000, and the tags of N successive calls are N distinct values for N up to
\* 1000: the tag of the last call differs from the tags of the 999 calls
\* before it.
C19_TagSequence ==
  /\ KthTag
  /\ \A i \in 1..(Len(t_out) - 1) :
       Len(t_out) - i <= MAX_TAG_INDEX => t_out[i] # t_out[Len(t_out)]
  /\ \A k \in 1..(Len(t_out) - 1) :
       t_out[k] = Padded(t_tags.tag, MAX_TAG_INDEX) => t_out[k + 1] = Padded(t_tags.tag, 0)

\* the call after the one that returned L999 returned L000
C19_Witness ==
  /\ Len(t_out) = MAX_TAG_INDEX + 2
  /\ t_out[MAX_TAG_INDEX + 1] = Padded(t_tags.tag, MAX_TAG_INDEX)
  /\ t_out[MAX_TAG_INDEX + 2] = Padded(t_tags.tag, 0)

(***************************************************************************)
(* Commands pipelined without waiting for their responses                  *)
(***************************************************************************)

\* how many commands are submitted in a row: one more than there are tags
MaxPipelined == 1001

\* IMAP::noop called again before any response has been read
noop_pipelined ==
  /\ _status # S_DISCONNECT /\ issued < MaxPipelined
  /\ request_enqueue(NOOP, <<"N", "O", "O", "P">>)
  /\ issued' = issued + 1
  /\ greeting' = <<>>
  /\ UNCHANGED <<_status, _error, _estr, _queue, sock_state, sock_rd, signals, wire,
                 answered, connects, otherVars>>

PipelineNext ==
  \/ connect_to_host
  \/ \E g \in Greetings : \E letter \in TagLetters : _on_connected(g, Len(g), letter)
  \/ noop_pipelined

SpecPipeline == Init /\ [][PipelineNext]_vars

\* C20: no two entries of the pending queue carry the same tag, and every
\* pending entry has its own callback registered under its tag, however many
\* commands are pipelined without waiting for responses.
C20_TagsInFlight ==
  /\ Cardinality({_resp[i].acc.tag : i \in 1..Len(_resp)}) = Len(_resp)
  /\ \A i \in 1..Len(_resp) :
       /\ _resp[i].acc.tag \in DOMAIN _resp_callback
       /\ _resp_callback[_resp[i].acc.tag] = _resp[i].n

(***************************************************************************)
(* Callers that wait for a signal (Base::_wait_for_event)                  *)
(***************************************************************************)

is_disconnected == _status = S_DISCONNECT

\* the signal was emitted since the wait began
EmittedSince(ev) ==
  \E i \in (waiter.from + 1)..Len(fired) : fired[i].ev = ev

\* QEventLoop::quit has been called: by the awaited signal, by error_occurred
\* or by the timer
LoopQuit ==
  /\ waiter.kind # "none"
  /\ \/ waiter.quit # "no"
     \/ EmittedSince(waiter.kind)
     \/ EmittedSince("error")

\* nothing but the caller's return happens once the loop was told to quit
Running == ~LoopQuit

\* the caller is not blocked in a wait
Free == waiter.kind = "none"

\* Base::_wait_for_event up to loop.exec()
_wait_for_event(kind) ==
  waiter' = [NoWaiter EXCEPT !.kind = kind, !.from = Len(fired)]

\* Base::wait_for_disconnected up to its wait: it returns at once when the
\* client is disconnected
wait_for_disconnected ==
  /\ Free
  /\ IF is_disconnected
     THEN waiter' = [NoWaiter EXCEPT !.of = "disconnected", !.ret = "true"]
     ELSE _wait_for_event("disconnected")
  /\ UNCHANGED <<engineVars, digestVars, handlerVars, tagVars, prodVars, cbVars>>

\* Base::wait_for_ready_read up to its wait
wait_for_ready_read_call ==
  /\ Free
  /\ _wait_for_event("ready_read")
  /\ UNCHANGED <<engineVars, digestVars, handlerVars, tagVars, prodVars, cbVars>>

Bool(b) == IF b THEN "true" ELSE "false"

\* loop.exec() returns and the waiting function returns its value
wait_return ==
  /\ LoopQuit
  /\ waiter' = [kind |-> "none", from |-> 0, quit |-> waiter.quit,
                of |-> waiter.kind,
                ret |-> IF waiter.kind = "disconnected" THEN Bool(is_disconnected)
                        ELSE Bool(wait_for_ready_read),
                sig |-> EmittedSince(waiter.kind),
                err |-> waiter.quit = "error" \/ EmittedSince("error")]
  /\ UNCHANGED <<engineVars, digestVars, handlerVars, tagVars, prodVars, cbVars>>

\* the single-shot timer of a positive deadline fires
timer_timeout ==
  /\ ~Free /\ Running
  /\ waiter' = [waiter EXCEPT !.quit = "timeout"]
  /\ UNCHANGED <<engineVars, digestVars, handlerVars, tagVars, prodVars, cbVars>>

\* _on_error_occurred while a caller waits: error_occurred quits its loop
on_error_occurred_waiting ==
  /\ ~Free /\ Running
  /\ signals /\ sock_state = "Connected"
  /\ error_only(E_INTERNAL, Msg("socket error"))
  /\ waiter' = [waiter EXCEPT !.quit = "error"]
  /\ UNCHANGED <<digestVars, handlerVars, tagVars, prodVars, cbVars>>

LogoutLine(line) ==
  endsWith(line, SP \o <<"L", "O", "G", "O", "U", "T">> \o CRLF)

\* the server answers LOGOUT with its BYE and a tagged OK, anything else as it
\* likes
ServerKinds ==
  IF Len(answered) < Len(sock_wr) /\ LogoutLine(sock_wr[Len(answered) + 1])
  THEN {"OK", "DATA"} ELSE ResponseKinds

\* the socket is about to report disconnected: the client asked for it, or the
\* server has answered a LOGOUT, every byte of the answer has arrived, and it
\* closes the connection
Closing ==
  \/ sock_state = "Closing"
  \/ /\ sock_state = "Connected" /\ wire = <<>>
     /\ \E i \in 1..Len(answered) : LogoutLine(sock_wr[i])

WaitNext ==
  \/ Free /\ connect_to_host
  \/ Free /\ \E g \in Greetings : \E letter \in TagLetters :
               _on_connected(g, Len(g), letter)
  \/ Free /\ noop
  \/ Free /\ logout
  \/ wait_for_disconnected
  \/ wait_for_ready_read_call
  \/ wait_return
  \/ timer_timeout
  \/ on_error_occurred_waiting
  \/ Free /\ _on_error_occurred
  \/ \E kind \in ServerKinds : ServerRespond(kind)
  \/ Running /\ \E k \in DeliverSizes(Len(wire)) : Deliver(k)
  \/ Running /\ Closing /\ _on_disconnected

SpecWait == Init /\ [][WaitNext]_vars

\* how many bytes may arrive at once when the server may also flush each line
\* it writes: a short chunk, all that is in flight, or the first line of it
SegmentSizes ==
  DeliverSizes(Len(wire))
  \cup (IF wire # <<>> /\ endsWith(LinesOf(wire)[1], CRLF)
        THEN {Len(LinesOf(wire)[1])} ELSE {})

\* a session that connects, may send a NOOP, logs out and waits for
\* disconnected
LogoutNext ==
  \/ Free /\ connect_to_host
  \/ Free /\ \E g \in Greetings : \E letter \in TagLetters :
               _on_connected(g, Len(g), letter)
  \/ Free /\ noop
  \/ Free /\ logout
  \/ wait_for_disconnected
  \/ wait_return
  \/ timer_timeout
  \/ on_error_occurred_waiting
  \/ \E kind \in ServerKinds : ServerRespond(kind)
  \/ Running /\ \E k \in SegmentSizes : Deliver(k)
  \/ Running /\ Closing /\ _on_disconnected

\* the steps of LogoutNext in which bytes arrive, told by what they do to the
\* bytes in flight: the steps of Deliver, and no others
Delivery ==
  /\ Running /\ sock_state = "Connected" /\ wire # <<>>
  /\ wire' \in {From(wire, k + 1) : k \in 1..Len(wire)}
  /\ sock_state' = sock_state

\* the server answers, the transport delivers the bytes and the close event,
\* and a caller whose loop has quit returns
LogoutFairness ==
  /\ WF_vars(\E kind \in ServerKinds : ServerRespond(kind))
  /\ WF_wire(Delivery)
  /\ WF_vars(Running /\ Closing /\ _on_disconnected)
  /\ WF_vars(wait_return)

SpecLogout == Init /\ [][LogoutNext]_vars /\ LogoutFairness

\* logout() was called in state Authenticated (its LOGOUT is the one pending
\* command) or in state Connected (the close was asked for, no command is
\* pending), and the caller has begun to wait for disconnected
LogoutAwaited ==
  /\ waiter.kind = "disconnected" /\ waiter.quit = "no"
  /\ waiter.from = Len(fired)
  /\ \/ /\ _status = S_AUTHENTICATE /\ Len(_resp) = 1
        /\ _resp[1].type = LOGOUT
     \/ /\ _status = S_CONNECT /\ _resp = <<>>
        /\ DISCONNECT_TAG \in DOMAIN _resp_callback

\* the engine is Disconnected, disconnected was emitted during the wait and
\* wait_for_disconnected returned true
DisconnectedAwaited ==
  /\ is_disconnected
  /\ Free /\ waiter.of = "disconnected" /\ waiter.sig /\ waiter.ret = "true"

\* the deadline expired or the socket reported an error during the wait
TransportFailed == waiter.quit # "no"

\* C24: after logout() in state Authenticated (LOGOUT sent, answered with a
\* tagged OK, the connection closed by the server) or in state Connected, the
\* engine eventually is Disconnected, has emitted disconnected, and
\* wait_for_disconnected() has returned true, provided the transport delivers
\* the server's bytes and its close event.
C24_LogoutDisconnects ==
  LogoutAwaited ~> (DisconnectedAwaited \/ TransportFailed)

\* C25: wait_for_ready_read returns when ready_read fires, when error_occurred
\* fires or when the deadline expires; it returns true only if ready_read was
\* emitted during that wait, and false only if an error occurred during that
\* wait.
C25_WaiterResult ==
  (Free /\ waiter.of = "ready_read")
    => /\ waiter.ret = "true" => waiter.sig
       /\ waiter.ret = "false" => waiter.err

(***************************************************************************)
(* Two execution contexts inside IMAP::_request                            *)
(***************************************************************************)

\* how many commands the contexts submit between them
MaxSubmits == 4

\* the engine's variables that no step inside _request writes
requestFrame ==
  <<_status, _error, _estr, _queue, sock_state, sock_rd, signals, wire, answered,
    connects, fired>>

\* _request up to the call of generate: the state is looked at; nothing is
\* locked
request_enter(t) ==
  /\ prod[t].pc = "out" /\ _status # S_DISCONNECT
  /\ issued + Cardinality({u \in Producers :
                             prod[u].pc \in {"load", "store", "emplace"}})
       < MaxSubmits
  /\ prod' = [prod EXCEPT ![t].pc = "load"]
  /\ greeting' = <<>>
  /\ UNCHANGED <<_tags, _resp, _resp_callback, sock_wr, issued, requestFrame,
                 digestVars, handlerVars, tagVars, waitVars, cbVars>>

\* TagGenerator::generate, `auto index = _idx`
generate_load(t) ==
  /\ prod[t].pc = "load"
  /\ prod' = [prod EXCEPT ![t].pc = "store", ![t].idx = _tags.idx]
  /\ greeting' = <<>>
  /\ UNCHANGED <<_tags, _resp, _resp_callback, sock_wr, issued, requestFrame,
                 digestVars, handlerVars, tagVars, waitVars, cbVars>>

\* TagGenerator::generate, `++_idx` and the wrap, from the index loaded
generate_store(t) ==
  /\ prod[t].pc = "store"
  /\ _tags' = generate([_tags EXCEPT !.idx = prod[t].idx]).tags
  /\ prod' = [prod EXCEPT ![t].pc = "emplace"]
  /\ greeting' = <<>>
  /\ UNCHANGED <<_resp, _resp_callback, sock_wr, issued, requestFrame,
                 digestVars, handlerVars, tagVars, waitVars, cbVars>>

\* the tag generate returned to the context
TagOf(t) == generate([_tags EXCEPT !.idx = prod[t].idx]).tag

\* _request, emplace_back and the insertion of the callback
request_emplace(t) ==
  /\ prod[t].pc = "emplace"
  /\ _resp' = Append(_resp, [type |-> NOOP, n |-> issued + 1,
                             acc |-> IMAPResponse(TagOf(t))])
  /\ _resp_callback' = IF TagOf(t) \in DOMAIN _resp_callback THEN _resp_callback
                       ELSE _resp_callback @@ (TagOf(t) :> issued + 1)
  /\ issued' = issued + 1
  /\ prod' = [prod EXCEPT ![t].pc = "write"]
  /\ greeting' = <<>>
  /\ UNCHANGED <<_tags, sock_wr, requestFrame,
                 digestVars, handlerVars, tagVars, waitVars, cbVars>>

\* _request, write and flush
request_write(t) ==
  /\ prod[t].pc = "write"
  /\ sock_wr' = IF sock_state = "Connected"
                THEN Append(sock_wr, TagOf(t) \o SP \o <<"N", "O", "O", "P">> \o CRLF)
                ELSE sock_wr
  /\ prod' = [prod EXCEPT ![t].pc = "out"]
  /\ greeting' = <<>>
  /\ UNCHANGED <<_tags, _resp, _resp_callback, issued, requestFrame,
                 digestVars, handlerVars, tagVars, waitVars, cbVars>>

ProducersNext ==
  \/ connect_to_host
  \/ \E g \in Greetings : \E letter \in TagLetters : _on_connected(g, Len(g), letter)
  \/ \E t \in Producers : request_enter(t)
  \/ \E t \in Producers : generate_load(t)
  \/ \E t \in Producers : generate_store(t)
  \/ \E t \in Producers : request_emplace(t)
  \/ \E t \in Producers : request_write(t)

SpecProducers == Init /\ [][ProducersNext]_vars

\* the tags of the pending queue and of the lines written, in their order
QueueTags == [i \in 1..Len(_resp) |-> _resp[i].acc.tag]
WrittenTags == [i \in 1..Len(sock_wr) |-> SubSeq(sock_wr[i], 1, 4)]

\* where a tag stands first in the pending queue
QueueIndex(tag) == FirstIn({i \in 1..Len(_resp) : QueueTags[i] = tag})

\* C26: when two contexts submit concurrently each submission behaves as one
\* critical section: in every reachable state the lines written stand in the
\* order their tags have in the pending queue, and no two submissions obtained
\* the same tag.
C26_AtomicSubmission ==
  /\ \A i, j \in 1..Len(_resp) : i # j => QueueTags[i] # QueueTags[j]
  /\ \A i, j \in 1..Len(sock_wr) :
       i < j => QueueIndex(WrittenTags[i]) < QueueIndex(WrittenTags[j])

(***************************************************************************)
(* The callbacks of a connection on which a caller submits one command     *)
(* after the other, each once the one before has completed, until the tag  *)
(* index has wrapped                                                       *)
(***************************************************************************)

\* how many commands are submitted: one more than there are tags
MaxRegistered == 1001

\* the state _on_connected leaves: a new generator, nothing pending
CallbacksInit ==
  \E letter \in TagLetters :
     cbs = [tags |-> [tag |-> letter, idx |-> 0], resp |-> <<>>,
            callback |-> <<>>, issued |-> 0, invoked |-> NoInvocation]

\* IMAP::_request from the generated tag on: the entry is appended and the
\* callback is stored unless the tag has one already
cb_request(type) ==
  /\ cbs.issued < MaxRegistered /\ cbs.resp = <<>>
  /\ \E g \in {generate(cbs.tags)} :
       cbs' = [cbs EXCEPT
                 !.tags = g.tags,
                 !.resp = Append(@, [type |-> type, n |-> cbs.issued + 1,
                                     tag |-> g.tag]),
                 !.callback = IF g.tag \in DOMAIN @ THEN @
                              ELSE @ @@ (g.tag :> cbs.issued + 1),
                 !.issued = @ + 1]
  /\ UNCHANGED <<engineVars, digestVars, handlerVars, tagVars, waitVars, prodVars>>

\* IMAP::_on_ready_read from the handler on, the head's response being
\* complete with the one tagged line `<tag> kw x`: the success handler invokes
\* and removes the callback stored under the head's tag, and the head is
\* erased whatever the handler called
cb_completed(kw) ==
  /\ cbs.resp # <<>>
  /\ \E head \in {cbs.resp[1]} :
       \E h \in {RESPONSE_HANDLER(head.type,
                   [IMAPResponse(head.tag) EXCEPT !.tagged = <<<<kw, <<"x">>>>>>])} :
          cbs' = [cbs EXCEPT
                    !.resp = Tail(@),
                    !.callback = IF h.kind = "success" THEN mapRemove(@, head.tag)
                                 ELSE @,
                    !.invoked = IF h.kind = "success" /\ head.tag \in DOMAIN cbs.callback
                                THEN [n |-> head.n, cb |-> cbs.callback[head.tag]]
                                ELSE NoInvocation]
  /\ UNCHANGED <<engineVars, digestVars, handlerVars, tagVars, waitVars, prodVars>>

\* the first command is a NOOP or a LOGOUT, every later one a NOOP
FirstCommands == {NOOP, LOGOUT}

\* the server may refuse the first command; it answers every later one OK
CompletionKeywords == IF cbs.issued = 1 THEN {R_OK, R_NO} ELSE {R_OK}

CallbacksNext ==
  \/ \E type \in (IF cbs.issued = 0 THEN FirstCommands ELSE {NOOP}) : cb_request(type)
  \/ \E kw \in CompletionKeywords : cb_completed(kw)

InitCallbacks ==
  CallbacksInit /\ EngineInit /\ DigestIdle /\ HandlerIdle /\ TagsIdle /\ WaitIdle
  /\ ProdIdle

SpecCallbacks == InitCallbacks /\ [][CallbacksNext]_vars

\* C33: the success callback registered with command X is invoked only on the
\* completion of X, with X's payload: the callback a completion invokes is the
\* one registered with the command that completed, also when an earlier
\* command failed or was a LOGOUT and the tag index has wrapped since.
C33_NoCrossDelivery == cbs.invoked.cb = cbs.invoked.n

(***************************************************************************)
(* A session that connects and logs in, against a server that answers      *)
(* LOGIN with a tagged line of any keyword                                 *)
(***************************************************************************)

\* the keywords the server may put in its tagged reply: OK, the refusals, and
\* words a LOGIN reply should not carry, one of them unknown to Response
ReplyKeywords == {R_OK, R_NO, R_BAD, R_BYE, R_PREAUTH, <<"H", "E", "L", "L", "O">>}

\* the server answers the oldest command it has not answered yet with the one
\* line `<tag> kw x`
ServerTagged(kw) ==
  /\ sock_state = "Connected" /\ Len(answered) < Len(sock_wr)
  /\ \E line \in {sock_wr[Len(answered) + 1]} :
       wire' = wire \o SubSeq(line, 1, RunNot(line, 1, " "))
                    \o SP \o kw \o SP \o <<"x">> \o CRLF
  /\ answered' = Append(answered, [kind |-> kw, written |-> Len(sock_wr)])
  /\ greeting' = <<>>
  /\ UNCHANGED <<_status, _error, _estr, _tags, _resp, _resp_callback, _queue,
                 sock_state, sock_rd, sock_wr, signals, issued, connects, fired,
                 otherVars>>

LoginNext ==
  \/ connect_to_host
  \/ \E g \in Greetings : \E letter \in TagLetters :
       _on_connected(g, Len(g), letter)
  \/ login
  \/ read
  \/ \E kw \in ReplyKeywords : ServerTagged(kw)
  \/ \E k \in DeliverSizes(Len(wire)) : Deliver(k)

SpecLogin == Init /\ [][LoginNext]_vars

\* the head command is a LOGIN and the keyword of the server's tagged reply to
\* it is literally OK
LoginRepliedOK ==
  /\ _resp # <<>> /\ _resp[1].type = LOGIN
  /\ _resp[1].n <= Len(answered)
  /\ answered[_resp[1].n].kind = R_OK

\* C34: the state becomes Authenticated only on a PREAUTH greeting or on a
\* tagged reply to LOGIN whose keyword is literally OK, and a Login payload is
\* produced only by such a reply; a reply with any other keyword (BYE,
\* PREAUTH, a word that is no response code) does neither.
C34_GenuineOK ==
  [][/\ (_status # S_AUTHENTICATE /\ _status' = S_AUTHENTICATE)
          => \/ /\ sock_state = "Connecting"
                /\ GreetingKeyword(greeting') = R_PREAUTH
             \/ LoginRepliedOK
     /\ (Len(_queue') > Len(_queue) /\ _queue'[Len(_queue')].type = "Login")
          => LoginRepliedOK]_vars

(***************************************************************************)
(* The FETCH command: a connected client is asked for messages, for every  *)
(* value of the field flags                                                *)
(***************************************************************************)
FetchIds == {1, 9}
FetchRanges == {0, 1, 2, 3}
FieldFlags == 0..(ENVELOPE + MIME + TEXT)

FetchNext ==
  \/ connect_to_host
  \/ \E g \in Greetings : \E letter \in TagLetters :
       _on_connected(g, Len(g), letter)
  \/ \E id \in FetchIds : \E field \in FieldFlags : \E range \in FetchRanges :
       fetch(id, field, range)

SpecFetch == Init /\ [][FetchNext]_vars

\* the flag is set in the value of the flags
HasFlag(flags, f) == (flags \div f) % 2 = 1

\* the text occurs in s
Contains(s, text) ==
  \E i \in 1..(Len(s) - Len(text) + 1) : SubSeq(s, i, i + Len(text) - 1) = text

\* the range of a FETCH as the command names it
RangeText(id, range) ==
  IF range <= 1 THEN NatToDigits(id)
  ELSE NatToDigits(id) \o <<":">> \o NatToDigits(id + range - 1)

\* the bytes are a FETCH of the range, tagged, whose parenthesised tokens are
\* those of the flags
IsFetchOf(line, tag, id, flags, range) ==
  LET head == tag \o SP \o R_FETCH \o SP \o RangeText(id, range) \o SP \o <<"(">>
      tokens == SubSeq(line, Len(head) + 1, Len(line) - 3)
  IN /\ startsWith(line, head)
     /\ endsWith(line, <<")">> \o CRLF)
     /\ Contains(tokens, ENVELOPE_TOKEN) <=> HasFlag(flags, ENVELOPE)
     /\ Contains(tokens, MIME_TOKEN) <=> HasFlag(flags, MIME)
     /\ Contains(tokens, BODY1) <=> HasFlag(flags, TEXT)

\* C40: for fetch(id, flags, range) the bytes written are `<tag> FETCH <r>
\* (<tokens>)` and CRLF, <r> being id when range <= 1 and id:(id+range-1)
\* otherwise, and <tokens> holding the section token of every flag set in flags
\* and of no other flag; a call with TEXT|MIME sends both tokens.
C40_FetchCommand ==
  [][\A id \in FetchIds : \A flags \in FieldFlags : \A range \in FetchRanges :
       (sock_state = "Connected" /\ _status # S_DISCONNECT
        /\ fetch(id, flags, range))
         => /\ Len(sock_wr') = Len(sock_wr) + 1
            /\ IsFetchOf(sock_wr'[Len(sock_wr')], _resp'[Len(_resp')].acc.tag,
                         id, flags, range)]_vars

\* the test's call: fetch(1, TEXT | MIME) sends both tokens in parentheses
C40_TestCall ==
  [][(sock_state = "Connected" /\ _status # S_DISCONNECT
      /\ fetch(1, TEXT + MIME, 1))
       => sock_wr'[Len(sock_wr')]
            \in {_resp'[Len(_resp')].acc.tag \o SP \o R_FETCH \o SP \o <<"1", " ", "(">>
                   \o a \o SP \o b \o e \o <<")">> \o CRLF :
                   a \in {BODY1, MIME_TOKEN}, b \in {BODY1, MIME_TOKEN},
                   e \in {<<>>, SP}}]_vars

\* a call with one flag and one message writes the token bare
C40_BareToken ==
  [][(sock_state = "Connected" /\ _status # S_DISCONNECT /\ fetch(1, TEXT, 1))
       => sock_wr'[Len(sock_wr')]
            = _resp'[Len(_resp')].acc.tag \o SP \o R_FETCH \o SP \o <<"1">> \o SP
              \o BODY1 \o CRLF]_vars
====
